---------------------------- MODULE Spec2Model ----------------------------
(***************************************************************************)
(* A model of coc-spring-initializr: the DependencyManager (the dependency *)
(* selector) and the generate-project wizard (the step chain with its      *)
(* pickSteps stack).                                                       *)
(*                                                                         *)
(* Strings that the program joins, splits or passes on as ids are modelled *)
(* as sequences of one-character strings: the id "a" is <<"a">>, the empty *)
(* string is <<>>.  Strings the program only compares or displays (step    *)
(* names, messages, names of dependencies) are TLA+ strings.               *)
(***************************************************************************)
EXTENDS Naturals, Integers, Sequences, FiniteSets, TLC

VARIABLES
    \* ---- host and environment
    catalog,        \* what serviceManager.getAvailableDependencies returns
    historyFile,    \* content of .last_used_dependencies (Null: no such file)
    extensionRoot,  \* the extension is known to the host and has an extensionPath
    starters,       \* what serviceManager.getStarters returns: dependencies and boms
    \* ---- the pom patcher and the add-starters handler that calls it
    pomText,        \* text of the pom document, a sequence of tokens
    editor,         \* options of the active text editor: insertSpaces, tabSize
    pomDeps,        \* the artifacts handed to updatePom
    pomBoms,        \* the boms handed to updatePom
    pomCalls,       \* the updatePom calls that have run: <<[before, error, applied]>>
    asPhase,        \* add-starters: "idle" | "select" | "proceed" | "done" | "failed"
    pending,        \* an updatePom promise nobody awaits has not run yet
    notices,        \* messages given to showInformationMessage
    unhandled,      \* message of a rejection no handler caught, or NoError
    rendered,       \* the getTextLines calls that have run: <<[node, indent, lines]>>
    \* ---- a DependencyManager instance and the flow that drives it
    flow,           \* "none" | "generate" | "addStarters"
    oldStarterIds,  \* add-starters: ids of the starters found in the pom
    dependencies,   \* DependencyManager.dependencies
    dict,           \* DependencyManager.dict
    selectedIds,    \* DependencyManager.selectedIds
    lastselected,   \* DependencyManager.lastselected
    aliased,        \* selectedIds is the very array defaults.dependencies
    listed,         \* showQuickPick is open on the list getQuickPickItems returned
    hist,           \* the last toggles: <<[id, before]>>, newest last
    \* ---- the generate-project wizard
    cfg,            \* host configuration, section spring.initializr
    defaults,       \* IDefaultProjectData handed to the handler
    phase,          \* "idle" | "steps" | "folder" | "overwrite" | "download" | "done"
                    \* | "failed"
    step,           \* the step runSteps executes next, or NoStep
    prompting,      \* the service URL pick is open
    metadata,       \* IProjectMetadata without pickSteps and defaults
    pickSteps,      \* IProjectMetadata.pickSteps
    defaultInput,   \* defaultInput of the GroupId, ArtifactId, PackageName singletons
    staleInput,     \* what defaultInput held when the run at hand began, until its first step
    shown,          \* messages given to showErrorMessage in this run
    thrown,         \* message of the error run() rejected with, or NoError
    downloaded,     \* this run has downloaded an archive
    outputUri,      \* the target folder specifyTargetFolder holds, or NoFolder
    overrideChoice, \* the last answer to the warning about the folder, or "none"
    lastStep,       \* the step whose execute ran last
    outcome,        \* how it ended
    stackBefore,    \* pickSteps when that execute was entered
    completed,      \* successful completions not since popped
    answered        \* of those, completions through an answered prompt

dmVars == <<flow, oldStarterIds, dependencies, dict, selectedIds, lastselected, aliased,
           listed, hist>>
hostVars == <<catalog, extensionRoot, starters>>
pomVars == <<pomText, editor, pomDeps, pomBoms, pomCalls, asPhase, pending, notices,
             unhandled, rendered>>
envVars == <<hostVars, historyFile, pomVars>>
wizRest == <<cfg, phase, step, prompting, metadata, pickSteps, defaultInput, staleInput,
             shown, thrown, downloaded, outputUri, overrideChoice, lastStep, outcome, stackBefore, completed, answered>>
wizVars == <<defaults, wizRest>>
vars == <<envVars, dmVars, wizVars>>

-----------------------------------------------------------------------------
(* Bounds of the model *)

\* longest catalog the metadata service returns
MaxCatalog == 2
\* most updatePom calls on one document
MaxPatches == 2
\* getTextLines calls on the nodes of one run
MaxRenders == 2
\* longest list of default dependencies a caller passes
MaxSeed == 2

-----------------------------------------------------------------------------
(* Values *)

\* string | null, string | undefined
Null == [null |-> TRUE, s |-> <<>>]
Some(s) == [null |-> FALSE, s |-> s]

IdA == <<"a">>
IdB == <<"b">>
Ids == {IdA, IdB}

\* IDependency entries the service may return; Undefined is a hole in the list
Web == [defined |-> TRUE, id |-> IdA, name |-> "Web", group |-> <<"C">>]
WebMvc == [defined |-> TRUE, id |-> IdA, name |-> "Web MVC", group |-> <<"S">>]
Jpa == [defined |-> TRUE, id |-> IdB, name |-> "JPA", group |-> <<"S">>]
Anon == [defined |-> TRUE, id |-> <<>>, name |-> "Anon", group |-> <<"C">>]
Undefined == [defined |-> FALSE, id |-> <<>>, name |-> "", group |-> <<>>]
Entries == {Web, WebMvc, Jpa, Anon, Undefined}

SeqsUpTo(S, n) == UNION {[1..k -> S] : k \in 0..n}

Catalogs == SeqsUpTo(Entries, MaxCatalog)

ToSet(s) == {s[i] : i \in 1..Len(s)}

\* Array.prototype.join of strings
RECURSIVE Join(_, _)
Join(list, sep) ==
    IF list = <<>> THEN <<>>
    ELSE IF Len(list) = 1 THEN list[1]
    ELSE list[1] \o sep \o Join(Tail(list), sep)

\* String.prototype.split at a one-character separator
RECURSIVE SplitFrom(_, _, _, _)
SplitFrom(s, c, cur, acc) ==
    IF s = <<>> THEN Append(acc, cur)
    ELSE IF Head(s) = c THEN SplitFrom(Tail(s), c, <<>>, Append(acc, cur))
    ELSE SplitFrom(Tail(s), c, Append(cur, Head(s)), acc)

Split(s, c) == SplitFrom(s, c, <<>>, <<>>)

Comma == <<",">>

\* Array.prototype.indexOf: the first index (from 0), or -1
IndexOf(s, x) ==
    IF \E i \in 1..Len(s) : s[i] = x
    THEN (CHOOSE i \in 1..Len(s) : s[i] = x /\ \A j \in 1..(i - 1) : s[j] # x) - 1
    ELSE -1

NoDuplicates(s) == \A i, j \in 1..Len(s) : s[i] = s[j] => i = j

-----------------------------------------------------------------------------
(* DependencyManager *)

\* initialize as a bug would have it: the undefined entries are kept
KeepUndefined(deps) == deps

\* initialize, line 24: dependencies.filter((dep) => dep !== undefined)
SkipUndefined(deps) == SelectSeq(deps, LAMBDA dep : dep.defined)

\* initialize, lines 25-29: for (dep of dependencies) if (dep.id) dict[dep.id] = dep
RECURSIVE BuildDict(_, _)
BuildDict(d, deps) ==
    IF deps = <<>> THEN d
    ELSE LET dep == Head(deps)
             d1 == IF dep.id # <<>>
                   THEN [i \in (DOMAIN d) \cup {dep.id} |-> IF i = dep.id THEN dep ELSE d[i]]
                   ELSE d
         IN  BuildDict(d1, Tail(deps))

\* readFileFromExtensionRoot as a bug would have it: something is made up for a file
\* that cannot be read
readFileOrMakeUp == IF ~extensionRoot \/ historyFile.null THEN Some(IdA) ELSE historyFile

\* readFileFromExtensionRoot(DEPENDENCIES_HISTORY_FILENAME)
readFileFromExtensionRoot == IF ~extensionRoot THEN Null ELSE historyFile

\* writeFileToExtensionRoot(DEPENDENCIES_HISTORY_FILENAME, data): what the file holds then
writeFileToExtensionRoot(data) == IF ~extensionRoot THEN historyFile ELSE Some(data)

\* getSelectedDependencies: selectedIds.map((id) => dict[id]).filter(Boolean)
getSelectedDependencies(sel, d) ==
    LET present == SelectSeq(sel, LAMBDA id : id \in DOMAIN d)
    IN  [i \in 1..Len(present) |-> d[present[i]]]

\* getUnselectedDependencies as a bug would have it: the selection is not looked at
getAllDependencies(deps, sel) == deps

\* getUnselectedDependencies: dependencies.filter((dep) => selectedIds.indexOf(dep.id) < 0)
getUnselectedDependencies(deps, sel) ==
    SelectSeq(deps, LAMBDA dep : IndexOf(sel, dep.id) < 0)

\* toggleDependency as a bug would have it: the id is pushed even when selected
toggleAlwaysPush(sel, id) == Append(sel, id)

\* toggleDependency
toggleDependency(sel, id) ==
    IF IndexOf(sel, id) >= 0
    THEN SelectSeq(sel, LAMBDA x : x # id)
    ELSE Append(sel, id)


\* a QuickPickItem & IDependenciesItem
Item(type, id, label, description) ==
    [itemType |-> type, id |-> id, label |-> label, description |-> description]

\* newSeparator
newSeparator(name) == Item("separator", name, name, <<>>)

CountLabel(n) == IF n = 0 THEN "0" ELSE IF n = 1 THEN "1" ELSE IF n = 2 THEN "2" ELSE "n"

\* genLastSelectedItem; NoItem for null
NoItem == <<>>

\* genLastSelectedItem as a bug would have it: ids the catalog has no more are kept
genLastSelectedItemUnfiltered(idList, d) ==
    LET availIdList == Split(idList, ",")
    IN  IF Len(availIdList) > 0
        THEN <<[itemType |-> "lastUsed", id |-> Join(availIdList, <<",">>),
                label |-> <<"$(clock) Last used">>, description |-> <<>>]>>
        ELSE <<>>

genLastSelectedItem(idList, d) ==
    LET availIdList == SelectSeq(Split(idList, ","), LAMBDA id : id \in DOMAIN d)
        availNameList == [i \in 1..Len(availIdList) |-> d[availIdList[i]].name]
    IN  IF Len(availNameList) > 0
        THEN <<Item("lastUsed", Join(availIdList, Comma), <<"$(clock) Last used">>,
                    Join([i \in 1..Len(availNameList) |-> <<availNameList[i]>>], <<", ">>))>>
        ELSE NoItem

\* getQuickPickItems, lines 69-84: the unselected entries and their separators
RECURSIVE UnselectedItems(_, _)
UnselectedItems(deps, group) ==
    IF deps = <<>> THEN <<>>
    ELSE LET dep == Head(deps)
             sep == ~group.null /\ group.s # dep.group
             group1 == IF sep THEN Some(dep.group) ELSE group
         IN  (IF sep THEN <<newSeparator(dep.group)>> ELSE <<>>)
             \o <<Item("dependency", dep.id, <<dep.name>>, dep.group)>>
             \o UnselectedItems(Tail(deps), group1)

\* getQuickPickItems, lines 41-86, on an initialized manager
QuickPickItems(deps, d, sel, last, hasLastSelected) ==
    LET lastItem == IF Len(sel) = 0 /\ hasLastSelected /\ ~last.null /\ last.s # <<>>
                    THEN genLastSelectedItem(last.s, d)
                    ELSE NoItem
        summary == Item("selection", Join(sel, Comma),
                        <<"Selected", CountLabel(Len(sel)),
                          IF Len(sel) = 1 THEN "dependency" ELSE "dependencies">>, <<>>)
        selectedDeps == getSelectedDependencies(sel, d)
        selectedItems == [i \in 1..Len(selectedDeps) |->
                            Item("dependency", selectedDeps[i].id,
                                 <<"(selected)", selectedDeps[i].name>>, selectedDeps[i].group)]
        unselectedDeps == getUnselectedDependencies(deps, sel)
    IN  lastItem \o <<summary>>
        \o (IF Len(selectedDeps) > 0 THEN <<newSeparator(<<"Selected">>)>> \o selectedItems ELSE <<>>)
        \o (IF Len(unselectedDeps) > 0 THEN UnselectedItems(unselectedDeps, Null) ELSE <<>>)

\* the list the open quick pick shows
CurrentItems ==
    QuickPickItems(dependencies, dict, selectedIds, lastselected, flow = "generate")

-----------------------------------------------------------------------------
(* The dependency selector driven by its two callers *)

NoDefaults == [language |-> Null, packaging |-> Null, dependencies |-> Null]

\* new DependencyManager(bootVersion), then selectedIds = seed
NewManager(seed, alias) ==
    /\ dependencies' = <<>>
    /\ dict' = <<>>
    /\ lastselected' = Null
    /\ selectedIds' = seed
    /\ aliased' = alias
    /\ listed' = FALSE
    /\ hist' = <<>>

\* the manager is a local of the flow that made it: none is left when the flow ends
DropManager ==
    /\ flow' = "none"
    /\ oldStarterIds' = <<>>
    /\ dependencies' = <<>>
    /\ dict' = <<>>
    /\ selectedIds' = <<>>
    /\ aliased' = FALSE
    /\ listed' = FALSE
    /\ hist' = <<>>

\* SpecifyDependenciesStep.specifyDependencies, lines 27-30
OpenDependencies(d) ==
    NewManager(IF d.dependencies.null THEN <<>> ELSE d.dependencies.s, ~d.dependencies.null)

\* getQuickPickItems, lines 38-40, and initialize
GetQuickPickItems ==
    /\ flow # "none"
    /\ asPhase # "proceed"
    /\ ~listed
    /\ IF Len(dependencies) = 0
       THEN /\ dependencies' = SkipUndefined(catalog)
            /\ dict' = BuildDict(dict, SkipUndefined(catalog))
            /\ lastselected' = readFileFromExtensionRoot
       ELSE UNCHANGED <<dependencies, dict, lastselected>>
    /\ listed' = TRUE
    /\ UNCHANGED <<flow, oldStarterIds, selectedIds, aliased, hist>>
    /\ UNCHANGED <<envVars, wizVars>>

\* the two newest toggles of a manager, kept where no wizard runs
Remember(id) ==
    LET h == Append(hist, [id |-> id, before |-> selectedIds])
    IN  IF phase # "idle" THEN <<>> ELSE IF Len(h) > 2 THEN Tail(h) ELSE h

\* the user picks a dependency item: toggleDependency(current.id), and the loop goes on.
\* A push changes the array in place, so an aliased defaults.dependencies changes too;
\* a removal assigns a new array to selectedIds.
PickDependency(item) ==
    /\ listed
    /\ item.itemType = "dependency"
    /\ listed' = FALSE
    /\ IF flow = "addStarters" /\ IndexOf(oldStarterIds, item.id) # -1
       THEN UNCHANGED <<selectedIds, aliased, hist, defaults>>
       ELSE /\ selectedIds' = toggleDependency(selectedIds, item.id)
            /\ hist' = Remember(item.id)
            /\ aliased' = (aliased /\ IndexOf(selectedIds, item.id) < 0)
            /\ defaults' = IF aliased /\ IndexOf(selectedIds, item.id) < 0
                           THEN [defaults EXCEPT !.dependencies = Some(selectedIds')]
                           ELSE defaults
    /\ UNCHANGED <<flow, oldStarterIds, dependencies, dict, lastselected>>
    /\ UNCHANGED <<envVars, wizRest>>

PickSomeDependency == \E i \in 1..Len(CurrentItems) : PickDependency(CurrentItems[i])

-----------------------------------------------------------------------------
(* The wizard: values *)

NoStep == "undefined"
NoFolder == "undefined"
NoError == "none"

Steps == {"ServiceUrl", "BootVersion", "Language", "GroupId", "ArtifactId", "PackageName",
          "Packaging", "JavaVersion", "Dependencies"}

\* value, or b when value is undefined or the empty string
OrElse(a, b) == IF ~a.null /\ a.s # <<>> THEN a ELSE b

LowerChar(c) ==
    CASE c = "J" -> "j" [] c = "K" -> "k" [] c = "W" -> "w" [] c = "A" -> "a"
      [] c = "R" -> "r" [] OTHER -> c

\* String.prototype.toLowerCase
toLowerCase(str) == [i \in 1..Len(str) |-> LowerChar(str[i])]

DEFAULT_SERVICE_URL == <<"https://start.spring.io">>
UrlU == <<"https://u">>
UrlV == <<"https://v">>

NoMetadata ==
    [serviceUrl |-> Null, bootVersion |-> Null, language |-> Null, groupId |-> Null,
     artifactId |-> Null, packageName |-> Null, packaging |-> Null, javaVersion |-> Null,
     dependencies |-> Null]

NoInputs == [groupId |-> Null, artifactId |-> Null, packageName |-> Null]

\* spring.initializr configurations of the host
AllPrompts ==
    [serviceUrl |-> [isString |-> FALSE, urls |-> <<>>], language |-> Null, packaging |-> Null,
     groupId |-> Null, artifactId |-> Null, packageName |-> Null]
Readme ==
    [serviceUrl |-> [isString |-> FALSE, urls |-> <<UrlU>>],
     language |-> Some(<<"J">>), packaging |-> Some(<<"J", "A", "R">>),
     groupId |-> Some(<<"c">>), artifactId |-> Some(<<"d">>), packageName |-> Null]
ManyUrls ==
    [serviceUrl |-> [isString |-> FALSE, urls |-> <<UrlU, UrlV>>],
     language |-> Some(<<"J">>), packaging |-> Null,
     groupId |-> Null, artifactId |-> Some(<<"d">>), packageName |-> Some(<<"p">>)]
OneUrlString ==
    [serviceUrl |-> [isString |-> TRUE, urls |-> <<UrlV>>],
     language |-> Null, packaging |-> Some(<<"W">>),
     groupId |-> Some(<<"c">>), artifactId |-> Null, packageName |-> Null]
Configurations == {AllPrompts, Readme, ManyUrls, OneUrlString}

\* what the user can pick or type at each prompt (label and value.id of a pick item)
PickItems(s) ==
    CASE s = "BootVersion" -> {[label |-> <<"3">>, id |-> <<"3">>]}
      [] s = "Language" -> {[label |-> <<"K">>, id |-> <<"k">>]}
      [] s = "Packaging" -> {[label |-> <<"W">>, id |-> <<"w">>]}
      [] s = "JavaVersion" -> {[label |-> <<"1", "7">>, id |-> <<"1", "7">>]}
      [] OTHER -> {}
Typed == {<<"x">>, <<"9">>}

\* a pick or an input, or the prompt dismissed
Dismissed == [null |-> TRUE, label |-> <<>>, id |-> <<>>]
Picked(item) == [null |-> FALSE, label |-> item.label, id |-> item.id]
Entered(text) == [null |-> FALSE, label |-> text, id |-> text]

Answers(s) ==
    {Dismissed} \cup {Picked(i) : i \in PickItems(s)}
    \cup (IF s \in {"GroupId", "ArtifactId", "PackageName"} THEN {Entered(t) : t \in Typed} ELSE {})

Pop(ps) == IF ps = <<>> THEN NoStep ELSE ps[Len(ps)]
Popped(ps) == IF ps = <<>> THEN <<>> ELSE SubSeq(ps, 1, Len(ps) - 1)

-----------------------------------------------------------------------------
(* The wizard: the steps *)

\* what a specify function leaves behind: the error it threw, or what it returned
Threw(msg, md, ps, di) ==
    [error |-> msg, ret |-> FALSE, prompted |-> TRUE, metadata |-> md, pickSteps |-> ps,
     defaultInput |-> di]
Returned(value, asked, md, ps, di) ==
    [error |-> NoError, ret |-> value, prompted |-> asked, metadata |-> md, pickSteps |-> ps,
     defaultInput |-> di]

NotSpecified(s) ==
    CASE s = "ServiceUrl" -> "Service URL not specified."
      [] s = "Language" -> "Language not specified."
      [] s = "JavaVersion" -> "Java version not specified."
      [] s = "Packaging" -> "Packaging not specified."
      [] s = "BootVersion" -> "BootVersion not specified."
      [] s = "GroupId" -> "GroupId not specified."
      [] s = "ArtifactId" -> "ArtifactId not specified."
      [] s = "PackageName" -> "PackageName not specified."
      [] OTHER -> "not specified."

\* createPickBox as a bug would have it: a dismissed pick returns false and never throws
createPickBoxNoThrow(pickStep, selected, md, ps, di) ==
    IF selected.null
    THEN Returned(FALSE, TRUE, md, ps, di)
    ELSE Returned(TRUE, TRUE,
                  CASE pickStep = "Language" ->
                         [md EXCEPT !.language = Some(toLowerCase(selected.label))]
                    [] pickStep = "JavaVersion" -> [md EXCEPT !.javaVersion = Some(selected.id)]
                    [] pickStep = "Packaging" ->
                         [md EXCEPT !.packaging = Some(toLowerCase(selected.label))]
                    [] pickStep = "BootVersion" -> [md EXCEPT !.bootVersion = Some(selected.id)]
                    [] OTHER -> md,
                  Append(ps, pickStep), di)

\* createPickBox as a bug would have it: the picked step is not pushed
createPickBoxNoPush(pickStep, selected, md, ps, di) ==
    IF selected.null
    THEN IF pickStep \in {"Language", "JavaVersion", "Packaging", "BootVersion"}
         THEN Threw(NotSpecified(pickStep), md, ps, di)
         ELSE Returned(FALSE, TRUE, md, ps, di)
    ELSE Returned(TRUE, TRUE,
                  CASE pickStep = "Language" ->
                         [md EXCEPT !.language = Some(toLowerCase(selected.label))]
                    [] pickStep = "JavaVersion" -> [md EXCEPT !.javaVersion = Some(selected.id)]
                    [] pickStep = "Packaging" ->
                         [md EXCEPT !.packaging = Some(toLowerCase(selected.label))]
                    [] pickStep = "BootVersion" -> [md EXCEPT !.bootVersion = Some(selected.id)]
                    [] OTHER -> md,
                  ps, di)

\* createPickBox
createPickBox(pickStep, selected, md, ps, di) ==
    IF selected.null
    THEN IF pickStep \in {"Language", "JavaVersion", "Packaging", "BootVersion"}
         THEN Threw(NotSpecified(pickStep), md, ps, di)
         ELSE Returned(FALSE, TRUE, md, ps, di)
    ELSE Returned(TRUE, TRUE,
                  CASE pickStep = "Language" ->
                         [md EXCEPT !.language = Some(toLowerCase(selected.label))]
                    [] pickStep = "JavaVersion" -> [md EXCEPT !.javaVersion = Some(selected.id)]
                    [] pickStep = "Packaging" ->
                         [md EXCEPT !.packaging = Some(toLowerCase(selected.label))]
                    [] pickStep = "BootVersion" -> [md EXCEPT !.bootVersion = Some(selected.id)]
                    [] OTHER -> md,
                  Append(ps, pickStep), di)

\* the characters of [a-z_] and of [a-z0-9_]
IdentifierStart ==
    {"a", "b", "c", "d", "e", "f", "g", "h", "i", "j", "k", "l", "m", "n", "o", "p", "q",
     "r", "s", "t", "u", "v", "w", "x", "y", "z", "_"}
IdentifierPart == IdentifierStart \cup {"0", "1", "2", "3", "4", "5", "6", "7", "8", "9"}

\* /^[a-z_][a-z0-9_]*(\.[a-z0-9_]+)*$/.test(value)
DottedName(value) ==
    /\ Len(value) > 0
    /\ value[1] \in IdentifierStart
    /\ \A i \in 1..Len(value) :
          \/ value[i] \in IdentifierPart
          \/ value[i] = "." /\ i < Len(value) /\ value[i + 1] \in IdentifierPart

\* /^[a-z_][a-z0-9_]*(-[a-z_][a-z0-9_]*)*$/.test(value)
DashedName(value) ==
    /\ Len(value) > 0
    /\ value[1] \in IdentifierStart
    /\ \A i \in 1..Len(value) :
          \/ value[i] \in IdentifierPart
          \/ value[i] = "-" /\ i < Len(value) /\ value[i + 1] \in IdentifierStart

\* groupIdValidation, artifactIdValidation, packageNameValidation: the message, or
\* undefined (null) for a value that matches
groupIdValidation(value) == IF DottedName(value) THEN "undefined" ELSE "Invalid Group Id"
artifactIdValidation(value) == IF DashedName(value) THEN "undefined" ELSE "Invalid Artifact Id"
packageNameValidation(value) == IF DottedName(value) THEN "null" ELSE "Invalid Package Name"

\* createInputBox
createInputBox(pickStep, input, md, ps, di) ==
    IF input.null
    THEN IF pickStep \in {"GroupId", "ArtifactId", "PackageName"}
         THEN Threw(NotSpecified(pickStep), md, ps, di)
         ELSE Returned(FALSE, TRUE, md, ps, di)
    ELSE CASE pickStep = "GroupId" ->
                Returned(TRUE, TRUE, [md EXCEPT !.groupId = Some(input.id)],
                         Append(ps, "GroupId"), [di EXCEPT !.groupId = Some(input.id)])
           [] pickStep = "ArtifactId" ->
                Returned(TRUE, TRUE, [md EXCEPT !.artifactId = Some(input.id)],
                         Append(ps, "ArtifactId"), [di EXCEPT !.artifactId = Some(input.id)])
           [] pickStep = "PackageName" ->
                Returned(TRUE, TRUE, [md EXCEPT !.packageName = Some(input.id)],
                         Append(ps, "PackageName"), [di EXCEPT !.packageName = Some(input.id)])
           [] OTHER -> Returned(TRUE, TRUE, md, ps, di)

\* getNextStep of the step classes
SpecifyServiceUrlStep_getNextStep == "BootVersion"
\* SpecifyBootVersionStep.getNextStep as a bug would have it: the language is skipped
SpecifyBootVersionStep_skipLanguage == "GroupId"
SpecifyBootVersionStep_getNextStep == "Language"
SpecifyLanguageStep_getNextStep == "GroupId"
SpecifyGroupIdStep_getNextStep == "ArtifactId"
SpecifyArtifactIdStep_getNextStep == "PackageName"
SpecifyPackageNameStep_getNextStep == "Packaging"
SpecifyPackagingStep_getNextStep == "JavaVersion"
SpecifyJavaVersionStep_getNextStep == "Dependencies"
SpecifyDependenciesStep_getNextStep == NoStep

\* execute as a bug would have it: the top of pickSteps is returned and left in place
ExecutedWithoutPop(r, nextStep) ==
    [error |-> r.error, ret |-> r.ret, prompted |-> r.prompted, metadata |-> r.metadata,
     defaultInput |-> r.defaultInput,
     pickSteps |-> r.pickSteps,
     next |-> IF r.error # NoError THEN NoStep
              ELSE IF ~r.ret THEN Pop(r.pickSteps)
              ELSE nextStep]

\* execute of the step classes, after the step's specify function left r:
\*   if (!(await this.specifyX(projectMetadata))) return projectMetadata.pickSteps.pop();
\*   return this.getNextStep();
Executed(r, nextStep) ==
    [error |-> r.error, ret |-> r.ret, prompted |-> r.prompted, metadata |-> r.metadata,
     defaultInput |-> r.defaultInput,
     pickSteps |-> IF r.error = NoError /\ ~r.ret THEN Popped(r.pickSteps) ELSE r.pickSteps,
     next |-> IF r.error # NoError THEN NoStep
              ELSE IF ~r.ret THEN Pop(r.pickSteps)
              ELSE nextStep]

\* SpecifyBootVersionStep
specifyBootVersion(selected, md, ps, di) == createPickBox("BootVersion", selected, md, ps, di)
SpecifyBootVersionStep_execute(selected, md, ps, di) ==
    Executed(specifyBootVersion(selected, md, ps, di), SpecifyBootVersionStep_getNextStep)

\* specifyLanguage as a bug would have it: a language taken from the defaults is pushed
specifyLanguagePushes(selected, md, ps, di, d, c) ==
    LET language == OrElse(d.language, c.language)
    IN  IF ~language.null /\ language.s # <<>>
        THEN Returned(TRUE, FALSE, [md EXCEPT !.language = Some(toLowerCase(language.s))],
                      Append(ps, "Language"), di)
        ELSE createPickBox("Language", selected, md, ps, di)

\* SpecifyLanguageStep
specifyLanguage(selected, md, ps, di, d, c) ==
    LET language == OrElse(d.language, c.language)
    IN  IF ~language.null /\ language.s # <<>>
        THEN Returned(TRUE, FALSE, [md EXCEPT !.language = Some(toLowerCase(language.s))],
                      ps, di)
        ELSE createPickBox("Language", selected, md, ps, di)
SpecifyLanguageStep_execute(selected, md, ps, di, d, c) ==
    Executed(specifyLanguage(selected, md, ps, di, d, c), SpecifyLanguageStep_getNextStep)

\* SpecifyPackagingStep
specifyPackaging(selected, md, ps, di, d, c) ==
    LET packaging == OrElse(d.packaging, c.packaging)
    IN  IF ~packaging.null /\ packaging.s # <<>>
        THEN Returned(TRUE, FALSE, [md EXCEPT !.packaging = Some(toLowerCase(packaging.s))],
                      ps, di)
        ELSE createPickBox("Packaging", selected, md, ps, di)
SpecifyPackagingStep_execute(selected, md, ps, di, d, c) ==
    Executed(specifyPackaging(selected, md, ps, di, d, c), SpecifyPackagingStep_getNextStep)

\* SpecifyArtifactIdStep
specifyArtifactId(input, md, ps, di) == createInputBox("ArtifactId", input, md, ps, di)
SpecifyArtifactIdStep_execute(input, md, ps, di) ==
    Executed(specifyArtifactId(input, md, ps, di), SpecifyArtifactIdStep_getNextStep)

\* SpecifyGroupIdStep, SpecifyPackageNameStep: input steps like SpecifyArtifactIdStep
SpecifyGroupIdStep_execute(input, md, ps, di) ==
    Executed(createInputBox("GroupId", input, md, ps, di), SpecifyGroupIdStep_getNextStep)
SpecifyPackageNameStep_execute(input, md, ps, di) ==
    Executed(createInputBox("PackageName", input, md, ps, di),
             SpecifyPackageNameStep_getNextStep)

\* SpecifyJavaVersionStep: a pick step like SpecifyBootVersionStep
SpecifyJavaVersionStep_execute(selected, md, ps, di) ==
    Executed(createPickBox("JavaVersion", selected, md, ps, di),
             SpecifyJavaVersionStep_getNextStep)

\* step.execute(operationId, this.metadata) of the steps that put one question
Execute(s, answer, md, ps, di, d, c) ==
    CASE s = "BootVersion" -> SpecifyBootVersionStep_execute(answer, md, ps, di)
      [] s = "Language" -> SpecifyLanguageStep_execute(answer, md, ps, di, d, c)
      [] s = "GroupId" -> SpecifyGroupIdStep_execute(answer, md, ps, di)
      [] s = "ArtifactId" -> SpecifyArtifactIdStep_execute(answer, md, ps, di)
      [] s = "PackageName" -> SpecifyPackageNameStep_execute(answer, md, ps, di)
      [] s = "Packaging" -> SpecifyPackagingStep_execute(answer, md, ps, di, d, c)
      [] s = "JavaVersion" -> SpecifyJavaVersionStep_execute(answer, md, ps, di)

\* resetDefaultInput as a bug would have it: the cached input is kept
SpecifyArtifactIdStep_keepDefaultInput(c, cur) == cur

\* resetDefaultInput of the three singletons
SpecifyArtifactIdStep_resetDefaultInput(c, cur) == c.artifactId
SpecifyGroupIdStep_resetDefaultInput(c, cur) == c.groupId
SpecifyPackageNameStep_resetDefaultInput(c, cur) == c.packageName

\* GenerateProjectHandler.runSteps, lines 43-45
resetDefaultInputs(c, di) ==
    [artifactId |-> SpecifyArtifactIdStep_resetDefaultInput(c, di.artifactId),
     groupId |-> SpecifyGroupIdStep_resetDefaultInput(c, di.groupId),
     packageName |-> SpecifyPackageNameStep_resetDefaultInput(c, di.packageName)]

\* specifyServiceUrl: the configured value needs a pick when it is a list of several
ServiceUrlAsks(c) == ~c.serviceUrl.isString /\ Len(c.serviceUrl.urls) > 1
ServiceUrlConfigured(c) ==
    IF c.serviceUrl.isString THEN c.serviceUrl.urls[1]
    ELSE IF Len(c.serviceUrl.urls) > 0 THEN c.serviceUrl.urls[1]
    ELSE DEFAULT_SERVICE_URL

-----------------------------------------------------------------------------
(* The wizard: BaseHandler.run and GenerateProjectHandler.runSteps *)

failureMessage == "Failed to create a project."

\* what a caller may hand to the handler as defaults
WizardSeeds == {Null} \cup {Some(s) : s \in SeqsUpTo({IdA}, MaxSeed)}
WizardDefaults ==
    {[language |-> l, packaging |-> pk, dependencies |-> deps] :
        l \in {Null, Some(<<"K">>)}, pk \in {Null}, deps \in WizardSeeds}
    \cup {[language |-> Null, packaging |-> Some(<<"W">>), dependencies |-> Null]}

\* BaseHandler.run, lines 12-15: the error is shown, then thrown again
Fail(msg) ==
    /\ phase' = "failed"
    /\ step' = NoStep
    /\ prompting' = FALSE
    /\ shown' = Append(shown, <<failureMessage, msg>>)
    /\ thrown' = msg

\* the step s has executed with the result e (error, next step, new metadata)
Apply(s, e, asked) ==
    /\ IF e.error # NoError
       THEN Fail(e.error)
       ELSE /\ step' = e.next
            /\ phase' = IF e.next = NoStep THEN "folder" ELSE "steps"
            /\ prompting' = FALSE
            /\ UNCHANGED <<shown, thrown>>
    /\ metadata' = e.metadata
    /\ pickSteps' = e.pickSteps
    /\ defaultInput' = e.defaultInput
    /\ staleInput' = defaultInput'
    /\ lastStep' = s
    /\ outcome' = IF ~e.prompted THEN "defaulted"
                  ELSE IF asked.null THEN "dismissed" ELSE "answered"
    /\ completed' = IF e.error # NoError THEN completed
                    ELSE IF e.ret THEN completed + 1
                    ELSE IF e.next # NoStep THEN completed - 1 ELSE completed
    /\ answered' = IF e.error # NoError THEN answered
                   ELSE IF e.ret THEN (IF e.prompted /\ s # "Dependencies"
                                       THEN answered + 1 ELSE answered)
                   ELSE IF e.next # NoStep THEN answered - 1 ELSE answered

\* a command handler: new GenerateProjectHandler(projectType, defaults).run(operationId),
\* up to the first step
StartRun(d) ==
    /\ phase \in {"idle", "failed", "done"}
    /\ flow = "none"
    /\ defaults' = d
    /\ phase' = "steps"
    /\ step' = "ServiceUrl"
    /\ prompting' = FALSE
    /\ metadata' = NoMetadata
    /\ pickSteps' = <<>>
    /\ staleInput' = defaultInput
    /\ defaultInput' = resetDefaultInputs(cfg, defaultInput)
    /\ shown' = <<>>
    /\ thrown' = NoError
    /\ downloaded' = FALSE
    /\ outputUri' = NoFolder
    /\ overrideChoice' = "none"
    /\ lastStep' = NoStep
    /\ outcome' = "none"
    /\ stackBefore' = <<>>
    /\ completed' = 0
    /\ answered' = 0
    /\ UNCHANGED <<cfg, envVars, dmVars>>

\* SpecifyServiceUrlStep.execute up to the pick, or to its end where no pick is needed
ExecServiceUrl ==
    /\ phase = "steps"
    /\ step = "ServiceUrl"
    /\ ~prompting
    /\ stackBefore' = pickSteps
    /\ IF ServiceUrlAsks(cfg)
       THEN /\ pickSteps' = Append(pickSteps, "ServiceUrl")
            /\ prompting' = TRUE
            /\ lastStep' = "ServiceUrl"
            /\ outcome' = "open"
            /\ staleInput' = defaultInput
            /\ UNCHANGED <<phase, step, metadata, defaultInput, shown, thrown,
                           completed, answered>>
       ELSE Apply("ServiceUrl",
                  Executed(Returned(TRUE, FALSE,
                                    [metadata EXCEPT !.serviceUrl = Some(ServiceUrlConfigured(cfg))],
                                    pickSteps, defaultInput),
                           SpecifyServiceUrlStep_getNextStep),
                  Dismissed)
    /\ UNCHANGED <<cfg, defaults, downloaded, outputUri, overrideChoice, envVars, dmVars>>

\* the service URL pick closes: SpecifyServiceUrlStep.execute, lines 41-45
AnswerServiceUrl(answer) ==
    /\ phase = "steps"
    /\ step = "ServiceUrl"
    /\ prompting
    /\ Apply("ServiceUrl",
             IF answer.null
             THEN Executed(Threw(NotSpecified("ServiceUrl"), metadata, pickSteps, defaultInput),
                           SpecifyServiceUrlStep_getNextStep)
             ELSE Executed(Returned(TRUE, TRUE, [metadata EXCEPT !.serviceUrl = Some(answer.id)],
                                    pickSteps, defaultInput),
                           SpecifyServiceUrlStep_getNextStep),
             answer)
    /\ UNCHANGED <<cfg, defaults, downloaded, outputUri, overrideChoice, stackBefore, envVars, dmVars>>

\* step.execute of a step that puts one question, with the user's answer to it
ExecStep(s, answer) ==
    /\ phase = "steps"
    /\ step = s
    /\ s \notin {"ServiceUrl", "Dependencies"}
    /\ stackBefore' = pickSteps
    /\ Apply(s, Execute(s, answer, metadata, pickSteps, defaultInput, defaults, cfg), answer)
    /\ UNCHANGED <<cfg, defaults, downloaded, outputUri, overrideChoice, envVars, dmVars>>

\* SpecifyDependenciesStep.execute up to the first list: specifyDependencies, lines 27-30
ExecDependencies ==
    /\ phase = "steps"
    /\ step = "Dependencies"
    /\ flow = "none"
    /\ flow' = "generate"
    /\ oldStarterIds' = <<>>
    /\ OpenDependencies(defaults)
    /\ lastStep' = "Dependencies"
    /\ outcome' = "open"
    /\ stackBefore' = pickSteps
    /\ UNCHANGED <<cfg, defaults, phase, step, prompting, metadata, pickSteps, defaultInput,
                   staleInput, shown, thrown, downloaded, outputUri, overrideChoice, completed, answered, envVars>>

\* the user picks an item that is no dependency: specifyDependencies, lines 46-51, then
\* execute returns getNextStep()
FinishDependencies(item) ==
    /\ phase = "steps"
    /\ step = "Dependencies"
    /\ flow = "generate"
    /\ listed
    /\ item.itemType # "dependency"
    /\ historyFile' = writeFileToExtensionRoot(item.id)
    /\ lastselected' = Null
    /\ DropManager
    /\ Apply("Dependencies",
             Executed(Returned(TRUE, TRUE, [metadata EXCEPT !.dependencies = Some(item.id)],
                               pickSteps, defaultInput),
                      SpecifyDependenciesStep_getNextStep),
             Picked([label |-> item.label, id |-> item.id]))
    /\ UNCHANGED <<cfg, defaults, downloaded, outputUri, overrideChoice, stackBefore, hostVars, pomVars>>

\* the user dismisses the list: specifyDependencies returns false, execute pops
DismissDependencies ==
    /\ phase = "steps"
    /\ step = "Dependencies"
    /\ flow = "generate"
    /\ listed
    /\ lastselected' = Null
    /\ DropManager
    /\ Apply("Dependencies",
             Executed(Returned(FALSE, TRUE, metadata, pickSteps, defaultInput),
                      SpecifyDependenciesStep_getNextStep),
             Dismissed)
    /\ UNCHANGED <<cfg, defaults, downloaded, outputUri, overrideChoice, stackBefore, envVars>>

\* the folders the user may name: one that does not exist yet, and a directory
Folders == {"fresh", "existing"}

\* isDirectory(outputUri)
isDirectory(folder) == folder = "existing"

\* specifyTargetFolder has the folder named at requireInputFolder: the loop at lines
\* 118-132 warns about a directory and ends without a folder; runSteps, lines 52-54,
\* throws when it is given none
TargetFolderNamed(input) ==
    /\ outputUri' = input
    /\ IF input = NoFolder
       THEN Fail("Target folder not specified.")
       ELSE /\ phase' = IF isDirectory(input) THEN "overwrite" ELSE "download"
            /\ UNCHANGED <<step, prompting, shown, thrown>>

\* specifyTargetFolder, lines 98-118, with a parent folder setting other than the
\* artifact id and no target folder in the defaults: the folder is asked for
SpecifyTargetFolder(input) ==
    /\ phase = "folder"
    /\ TargetFolderNamed(input)
    /\ UNCHANGED <<cfg, defaults, metadata, pickSteps, defaultInput, staleInput, downloaded,
                   overrideChoice, lastStep, outcome, stackBefore, completed, answered,
                   envVars, dmVars>>

\* the warning about the directory closes: specifyTargetFolder, lines 122-133.  Only
\* "Choose another folder" asks again; every other answer, none included, leaves the
\* loop with the folder as it is
AnswerOverwrite(choice, input) ==
    /\ phase = "overwrite"
    /\ overrideChoice' = choice
    /\ IF choice = "Choose another folder"
       THEN TargetFolderNamed(input)
       ELSE /\ phase' = "download"
            /\ UNCHANGED <<outputUri, step, prompting, shown, thrown>>
    /\ UNCHANGED <<cfg, defaults, metadata, pickSteps, defaultInput, staleInput, downloaded,
                   lastStep, outcome, stackBefore, completed, answered, envVars, dmVars>>

\* what downloadFile and extract may do: both succeed, the download throws, or the
\* extraction rejects with an error
DownloadResults == {"ok", "download failed", "extract failed"}

\* the message downloadAndUnzip shows itself before it rejects, lines 146 and 158
OwnMessage(result) ==
    IF result = "download failed"
    THEN <<"Unable to download project archive">>
    ELSE <<"Unable to extract resources">>

\* downloadAndUnzip, lines 136-165, called at runSteps line 57: a failure is shown by
\* the function itself, which then rejects with the error; run shows it again with
\* the failure message
DownloadAndUnzip(result) ==
    /\ phase = "download"
    /\ downloaded' = (result # "download failed")
    /\ IF result = "ok"
       THEN /\ phase' = "done"
            /\ UNCHANGED <<step, prompting, shown, thrown>>
       ELSE /\ phase' = "failed"
            /\ step' = NoStep
            /\ prompting' = FALSE
            /\ shown' = shown \o <<OwnMessage(result), <<failureMessage, result>>>>
            /\ thrown' = result
    /\ UNCHANGED <<cfg, defaults, metadata, pickSteps, defaultInput, staleInput, outputUri,
                   overrideChoice, lastStep, outcome, stackBefore, completed, answered,
                   envVars, dmVars>>

-----------------------------------------------------------------------------
(* The pom patcher: text, offsets and elements *)

\* The text of a document is a sequence of tokens: a start tag <n>, an end tag </n>, a
\* self-closing tag <n/>, a space, a tab, a line feed, or a run of other characters.
\* Offsets are counted in characters, as the program counts them.
Tok(kind, name, text) == [k |-> kind, n |-> name, t |-> text]
O(name) == Tok("open", name, <<>>)
C(name) == Tok("close", name, <<>>)
E(name) == Tok("empty", name, <<>>)
T(text) == Tok("text", "", text)
Sp == Tok("sp", "", <<>>)
Tab == Tok("tab", "", <<>>)
Nl == Tok("nl", "", <<>>)

\* String.prototype.length of a tag name
NameLength(name) ==
    CASE name = "project" -> 7
      [] name = "dependencies" -> 12
      [] name = "dependencyManagement" -> 20
      [] name = "dependency" -> 10
      [] name = "groupId" -> 7
      [] name = "artifactId" -> 10
      [] name = "version" -> 7
      [] name = "scope" -> 5
      [] name = "type" -> 4
      [] name = "settings" -> 8
      [] OTHER -> 1

\* number of characters of a token; a character of a text run is one element of it
TokLen(tok) ==
    CASE tok.k = "open" -> NameLength(tok.n) + 2
      [] tok.k = "close" -> NameLength(tok.n) + 3
      [] tok.k = "empty" -> NameLength(tok.n) + 3
      [] tok.k = "text" -> Len(tok.t)
      [] OTHER -> 1

\* number of characters of the tokens from the i-th to the j-th of a text, summed by
\* halves
RECURSIVE LengthBetween(_, _, _)
LengthBetween(text, i, j) ==
    IF i > j THEN 0
    ELSE IF i = j THEN TokLen(text[i])
    ELSE LengthBetween(text, i, (i + j) \div 2) + LengthBetween(text, (i + j) \div 2 + 1, j)

\* number of characters of the first i tokens of a text
LengthTo(text, i) == LengthBetween(text, 1, i)

\* number of characters of a text
TextLength(text) == LengthTo(text, Len(text))

\* offset of the first character of the i-th token (offsets start at 0)
OffsetOf(text, i) == LengthTo(text, i - 1)

\* the first token from the lo-th to the hi-th that starts at the offset or behind it,
\* found by halving: the offsets of the tokens never decrease
RECURSIVE TokenFrom(_, _, _, _)
TokenFrom(text, lo, hi, offset) ==
    IF lo >= hi THEN lo
    ELSE IF OffsetOf(text, (lo + hi) \div 2) >= offset
         THEN TokenFrom(text, lo, (lo + hi) \div 2, offset)
         ELSE TokenFrom(text, (lo + hi) \div 2 + 1, hi, offset)

\* the token that starts at the offset, Len(text) + 1 for the end of the text; none (0)
\* when the offset is inside a token or behind the end
TokenAt(text, offset) ==
    LET i == TokenFrom(text, 1, Len(text) + 1, offset)
    IN  IF OffsetOf(text, i) = offset THEN i ELSE 0

\* the first token of the line of the i-th token: Position.create(pos.line, 0)
LineStart(text, i) ==
    IF \E j \in 1..(i - 1) : text[j].k = "nl"
    THEN (CHOOSE j \in 1..(i - 1) : text[j].k = "nl" /\ \A m \in (j + 1)..(i - 1) : text[m].k # "nl")
         + 1
    ELSE 1

\* /\s/ matches the token
IsSpace(tok) == tok.k \in {"sp", "tab", "nl"}
\* String.prototype.trim() of the text is ""
IsBlank(text) == \A i \in 1..Len(text) : IsSpace(text[i])

\* the places of the tags of a text, in document order
Tags(text) ==
    SelectSeq([i \in 1..Len(text) |-> i],
              LAMBDA i : text[i].k \in {"open", "close", "empty"})

\* one pass over the tags from the j-th on: open holds the places in nodes of the
\* elements whose end tag has not come yet, nodes the elements in document order
RECURSIVE Scan(_, _, _, _, _)
Scan(text, tags, j, open, nodes) ==
    IF j > Len(tags) THEN SelectSeq(nodes, LAMBDA node : node.end > 0)
    ELSE CASE text[tags[j]].k = "open" ->
                Scan(text, tags, j + 1, Append(open, Len(nodes) + 1),
                     Append(nodes, [name |-> text[tags[j]].n, depth |-> Len(open),
                                    start |-> tags[j], end |-> 0]))
           [] text[tags[j]].k = "empty" ->
                Scan(text, tags, j + 1, open,
                     Append(nodes, [name |-> text[tags[j]].n, depth |-> Len(open),
                                    start |-> tags[j], end |-> tags[j]]))
           [] text[tags[j]].k = "close" /\ open # <<>> ->
                Scan(text, tags, j + 1, SubSeq(open, 1, Len(open) - 1),
                     [nodes EXCEPT ![open[Len(open)]].end = tags[j]])
           [] OTHER -> Scan(text, tags, j + 1, open, nodes)

\* the elements of a text as domhandler reports them, in document order: name, depth,
\* and the tokens that hold startIndex and endIndex
Elements(text) == Scan(text, Tags(text), 1, <<>>, <<>>)

\* getNodesByTag(content, tag): the elements with the tag, in document order
getNodesByTag(text, tag) == SelectSeq(Elements(text), LAMBDA node : node.name = tag)

\* node.children.find((node) => isTag(node) && node.tagName === tag): the first child
\* element with the tag, as a list of none or one
FindChild(text, parent, tag) ==
    LET children == SelectSeq(Elements(text),
                              LAMBDA node : /\ node.start > parent.start
                                            /\ node.end < parent.end
                                            /\ node.depth = parent.depth + 1
                                            /\ node.name = tag)
    IN  IF children = <<>> THEN <<>> ELSE <<children[1]>>

\* Element.startIndex and Element.endIndex: the offsets of the first and last character
startIndex(text, node) == OffsetOf(text, node.start)
endIndex(text, node) == OffsetOf(text, node.end) + TokLen(text[node.end]) - 1

-----------------------------------------------------------------------------
(* The pom patcher: rendering *)

RECURSIVE Flatten(_)
Flatten(seqs) == IF seqs = <<>> THEN <<>> ELSE Head(seqs) \o Flatten(Tail(seqs))

\* a value is neither undefined nor the empty string
Truthy(v) == ~v.null /\ v.s # <<>>

\* `<tag>${value}</tag>`
TagLine(tag, value) == <<O(tag), T(value), C(tag)>>

\* PomNode.wrapWithParentNode
wrapWithParentNode(lines, indent, parent) ==
    <<<<O(parent)>>>> \o [i \in 1..Len(lines) |-> indent \o lines[i]] \o <<<<C(parent)>>>>

\* toTextLine as a bug would have it: the scope is emitted whenever it is given
toTextLineAnyScope(artifact, indent) ==
    wrapWithParentNode(
        <<TagLine("groupId", artifact.groupId), TagLine("artifactId", artifact.artifactId)>>
        \o (IF Truthy(artifact.version) THEN <<TagLine("version", artifact.version.s)>> ELSE <<>>)
        \o (IF Truthy(artifact.scope) THEN <<TagLine("scope", artifact.scope.s)>> ELSE <<>>),
        indent, "dependency")

\* DependencyNodes.toTextLine
toTextLine(artifact, indent) ==
    wrapWithParentNode(
        <<TagLine("groupId", artifact.groupId), TagLine("artifactId", artifact.artifactId)>>
        \o (IF Truthy(artifact.version) THEN <<TagLine("version", artifact.version.s)>> ELSE <<>>)
        \o (IF Truthy(artifact.scope) /\ artifact.scope.s # <<"compile">>
            THEN <<TagLine("scope", artifact.scope.s)>> ELSE <<>>),
        indent, "dependency")

\* bomToTextLine as a bug would have it: type and scope are taken from the bom
bomToTextLineAsGiven(bom, indent) ==
    wrapWithParentNode(
        <<TagLine("groupId", bom.groupId), TagLine("artifactId", bom.artifactId),
          TagLine("version", bom.version),
          TagLine("type", IF Truthy(bom.type) THEN bom.type.s ELSE <<"pom">>),
          TagLine("scope", IF Truthy(bom.scope) THEN bom.scope.s ELSE <<"import">>)>>,
        indent, "dependency")

\* BOMNodes.bomToTextLine
bomToTextLine(bom, indent) ==
    wrapWithParentNode(
        <<TagLine("groupId", bom.groupId), TagLine("artifactId", bom.artifactId),
          TagLine("version", bom.version), TagLine("type", <<"pom">>),
          TagLine("scope", <<"import">>)>>,
        indent, "dependency")

\* new BOMNodes as a bug would have it: the parents are dropped
BOMNodesUnwrapped(boms, parents) == [kind |-> "boms", items |-> boms, parents |-> <<>>]

\* new DependencyNodes(artifacts, { initParent }) and new BOMNodes(boms, { parents })
DependencyNodes(artifacts, initParent) ==
    [kind |-> "artifacts", items |-> artifacts,
     parents |-> IF initParent THEN <<"dependencies">> ELSE <<>>]
BOMNodes(boms, parents) == [kind |-> "boms", items |-> boms, parents |-> parents]

\* the for loop of BOMNodes.getTextLines: each parent wraps what the one before left
RECURSIVE WrapWithParents(_, _, _)
WrapWithParents(lines, indent, parents) ==
    IF parents = <<>> THEN lines
    ELSE WrapWithParents(wrapWithParentNode(lines, indent, Head(parents)), indent, Tail(parents))

\* getTextLines as a bug would have it: the lines of the call before are kept in the
\* node, and the parents wrap them once more
getTextLinesFedBack(node, indent) ==
    IF rendered = <<>>
    THEN WrapWithParents(
             Flatten([i \in 1..Len(node.items) |->
                         IF node.kind = "artifacts" THEN toTextLine(node.items[i], indent)
                         ELSE bomToTextLine(node.items[i], indent)]),
             indent, node.parents)
    ELSE WrapWithParents(rendered[Len(rendered)].lines, indent, node.parents)

\* DependencyNodes.getTextLines and BOMNodes.getTextLines
getTextLines(node, indent) ==
    WrapWithParents(
        Flatten([i \in 1..Len(node.items) |->
                    IF node.kind = "artifacts" THEN toTextLine(node.items[i], indent)
                    ELSE bomToTextLine(node.items[i], indent)]),
        indent, node.parents)

\* constructNodeText: ["", ...lines].join(`${eol}${baseIndent}${indent}`) + eol
constructNodeText(nodeToInsert, baseIndent, indent, eol) ==
    LET lines == getTextLines(nodeToInsert, indent)
    IN  Flatten([i \in 1..Len(lines) |-> eol \o baseIndent \o indent \o lines[i]]) \o eol

-----------------------------------------------------------------------------
(* The pom patcher: the edit *)

PomUri == "pom.xml"
SINGLE_PROJECT_ONLY == "Only support POM file with single <project> node."

\* edit.changes of a new WorkspaceEdit: no document has changes
NoChanges == <<>>

\* the leading white space of the text: RegExp(/^\s+/).exec
RECURSIVE LeadingSpace(_)
LeadingSpace(text) ==
    IF text = <<>> \/ ~IsSpace(Head(text)) THEN <<>>
    ELSE <<Head(text)>> \o LeadingSpace(Tail(text))

\* getIndentation as a bug would have it: no indentation is found
getIndentationNone(text, offset) == <<>>

\* getIndentation(document, offset)
getIndentation(text, offset) ==
    LET pos == TokenAt(text, offset)
    IN  LeadingSpace(SubSeq(text, LineStart(text, pos), pos - 1))

\* the insert offset as a bug would have it: never moved to the start of the line
InsertOffsetAtEndTag(text, parentNode) ==
    endIndex(text, parentNode) - (NameLength(parentNode.name) + 3) + 1

\* the insert offset as a bug would have it: behind the last character of the parent
InsertOffsetBehindParent(text, parentNode) == endIndex(text, parentNode) + 1

\* updateWorkspaceEdit, lines 68-77: the offset of the end tag of the parent, or of the
\* start of its line when only white space is before it on the line
InsertOffset(text, parentNode) ==
    LET insertOffset == endIndex(text, parentNode) - (NameLength(parentNode.name) + 3) + 1
        insertPos == TokenAt(text, insertOffset)
        contentBefore == SubSeq(text, LineStart(text, insertPos), insertPos - 1)
    IN  IF IsBlank(contentBefore) THEN insertOffset - TextLength(contentBefore)
        ELSE insertOffset

\* options.insertSpaces ? " ".repeat(options.tabSize) : "\t"
Indent(options) ==
    IF options.insertSpaces THEN [i \in 1..options.tabSize |-> Sp] ELSE <<Tab>>

\* platform() !== "win32" ? "\n" : "\r\n", on a platform that is not win32
Eol == <<Nl>>

\* updateWorkspaceEdit
updateWorkspaceEdit(edit, uri, text, parentNode, nodeToInsert, options) ==
    LET baseIndent == getIndentation(text, startIndex(text, parentNode))
        textEdit == [offset |-> InsertOffset(text, parentNode),
                     newText |-> constructNodeText(nodeToInsert, baseIndent, Indent(options),
                                                   Eol)]
    IN  [u \in (DOMAIN edit) \cup {uri} |-> IF u = uri THEN <<textEdit>> ELSE edit[u]]

\* getActiveProjectNode as a bug would have it: of several project elements the first
getFirstProjectNode(text) ==
    LET projectNodes == getNodesByTag(text, "project")
    IN  IF Len(projectNodes) = 0 THEN [error |-> SINGLE_PROJECT_ONLY, node |-> <<>>]
        ELSE [error |-> NoError, node |-> <<projectNodes[1]>>]

\* getActiveProjectNode
getActiveProjectNode(text) ==
    LET projectNodes == getNodesByTag(text, "project")
    IN  IF Len(projectNodes) # 1 THEN [error |-> SINGLE_PROJECT_ONLY, node |-> <<>>]
        ELSE [error |-> NoError, node |-> <<projectNodes[1]>>]

\* the end of updatePom as a bug would have it: the edit is applied twice
ApplyEditTwice(edit) == <<edit, edit>>

\* updatePom, line 39: the workspace edits handed to coc.workspace.applyEdit
ApplyEdit(edit) == <<edit>>

\* updatePom: the error it rejects with, or the workspace edits it applies
updatePom(text, uri, deps, boms, options) ==
    LET found == getActiveProjectNode(text)
    IN  IF found.error # NoError THEN [error |-> found.error, applied |-> <<>>]
        ELSE
        LET projectNode == found.node[1]
            dependenciesNode == FindChild(text, projectNode, "dependencies")
            edit1 == IF dependenciesNode # <<>>
                     THEN updateWorkspaceEdit(NoChanges, uri, text, dependenciesNode[1],
                                              DependencyNodes(deps, FALSE), options)
                     ELSE updateWorkspaceEdit(NoChanges, uri, text, projectNode,
                                              DependencyNodes(deps, TRUE), options)
            depMgmtNode == FindChild(text, projectNode, "dependencyManagement")
            depsNodes == IF depMgmtNode = <<>> THEN <<>>
                         ELSE FindChild(text, depMgmtNode[1], "dependencies")
            edit2 == IF Len(boms) = 0 THEN edit1
                     ELSE IF depMgmtNode = <<>>
                     THEN updateWorkspaceEdit(edit1, uri, text, projectNode,
                              BOMNodes(boms, <<"dependencies", "dependencyManagement">>), options)
                     ELSE IF depsNodes # <<>>
                     THEN updateWorkspaceEdit(edit1, uri, text, depsNodes[1],
                                              BOMNodes(boms, <<>>), options)
                     ELSE updateWorkspaceEdit(edit1, uri, text, depMgmtNode[1],
                                              BOMNodes(boms, <<"dependencies">>), options)
        IN  [error |-> NoError, applied |-> ApplyEdit(edit2)]

\* the insertion as a bug would have it: the new text takes the place of the token at
\* the offset
InsertAtReplacing(text, offset, newText) ==
    SubSeq(text, 1, TokenAt(text, offset) - 1) \o newText
    \o SubSeq(text, TokenAt(text, offset) + 1, Len(text))

\* the text with the new text inserted at the offset
InsertAt(text, offset, newText) ==
    LET i == TokenAt(text, offset)
    IN  SubSeq(text, 1, i - 1) \o newText \o SubSeq(text, i, Len(text))

\* applying a workspace edit as a bug would have it: text the document holds already
\* is not inserted again
applyEditIfAbsent(text, edit, uri) ==
    IF uri \in DOMAIN edit
       /\ \A i \in 0..(Len(text) - Len(edit[uri][1].newText)) :
             SubSeq(text, i + 1, i + Len(edit[uri][1].newText)) # edit[uri][1].newText
    THEN InsertAt(text, edit[uri][1].offset, edit[uri][1].newText)
    ELSE text

\* coc.workspace.applyEdit: the text of the document after the edit, which holds one
\* insertion for the document
applyEdit(text, edit, uri) ==
    IF uri \in DOMAIN edit
    THEN InsertAt(text, edit[uri][1].offset, edit[uri][1].newText)
    ELSE text

RECURSIVE ApplyAll(_, _, _)
ApplyAll(text, edits, uri) ==
    IF edits = <<>> THEN text
    ELSE ApplyAll(applyEdit(text, Head(edits), uri), Tail(edits), uri)

-----------------------------------------------------------------------------
(* The pom patcher driven by the add-starters handler *)

\* pom documents
NoProjectPom == <<O("settings"), Nl, C("settings"), Nl>>
TwoProjectsPom == <<O("project"), C("project"), Nl, O("project"), C("project"), Nl>>
PlainPom == <<O("project"), Nl, Sp, Sp, E("version"), Nl, C("project"), Nl>>
InlinePom == <<O("project"), T(<<"x">>), C("project")>>
OldDependency == <<O("dependency"), T(<<"o", "l", "d">>), C("dependency")>>
DependenciesPom ==
    <<O("project"), Nl, Sp, Sp, O("dependencies"), Nl>>
    \o <<Sp, Sp, Sp, Sp>> \o OldDependency \o <<Nl>>
    \o <<Sp, Sp, C("dependencies"), Nl, C("project"), Nl>>
InlineDependenciesPom ==
    <<O("project"), Nl, Tab, O("dependencies")>> \o OldDependency
    \o <<C("dependencies"), Nl, C("project"), Nl>>
SelfClosingPom == <<O("project"), Nl, Sp, Sp, E("dependencies"), Nl, C("project"), Nl>>
ManagedPom ==
    <<O("project"), Nl, Sp, O("dependencyManagement"), Nl, Sp, Sp, O("dependencies"), Nl>>
    \o <<Sp, Sp, Sp>> \o OldDependency \o <<Nl>>
    \o <<Sp, Sp, C("dependencies"), Nl, Sp, C("dependencyManagement"), Nl, C("project"), Nl>>
ManagementOnlyPom ==
    <<O("project"), Nl, Sp, O("dependencies"), Nl, Sp, C("dependencies"), Nl>>
    \o <<Sp, O("dependencyManagement"), Nl, Sp, C("dependencyManagement"), Nl>>
    \o <<C("project"), Nl>>
SkewedPom ==
    <<O("project"), Nl, Sp, Sp, O("dependencies"), Nl, Tab, C("dependencies"), Nl,
      C("project"), Nl>>
Documents == {NoProjectPom, TwoProjectsPom, PlainPom, InlinePom, DependenciesPom,
              InlineDependenciesPom, SelfClosingPom, ManagedPom, ManagementOnlyPom,
              SkewedPom}

\* IArtifact and IBom values
Versions == {Null, Some(<<>>), Some(<<"1">>)}
Scopes == {Null, Some(<<>>), Some(<<"compile">>), Some(<<"test">>)}
Artifact(version, scope) ==
    [groupId |-> <<"g">>, artifactId |-> <<"a">>, version |-> version, scope |-> scope]
Artifacts == {Artifact(v, sc) : v \in Versions, sc \in Scopes}
OtherArtifact ==
    [groupId |-> <<"h">>, artifactId |-> <<"b">>, version |-> Null, scope |-> Null]
ArtifactLists == {<<a>> : a \in Artifacts} \cup {<<Artifact(Null, Null), OtherArtifact>>}
PlainBom ==
    [groupId |-> <<"m">>, artifactId |-> <<"n">>, version |-> <<"2">>, scope |-> Null,
     type |-> Null]
TypedBom ==
    [groupId |-> <<"p">>, artifactId |-> <<"q">>, version |-> <<"3">>,
     scope |-> Some(<<"test">>), type |-> Some(<<"jar">>)]
BomLists == {<<>>, <<PlainBom>>, <<TypedBom, PlainBom>>}

EditorOptions == {[insertSpaces |-> TRUE, tabSize |-> 2], [insertSpaces |-> FALSE, tabSize |-> 8]}

AddStartersFailureMessage == "Fail to edit starters."

\* no add-starters command has run, no pom is at hand
PatcherAbsent ==
    /\ pomText = <<>>
    /\ editor = [insertSpaces |-> TRUE, tabSize |-> 2]
    /\ pomDeps = <<>>
    /\ pomBoms = <<>>
    /\ pomCalls = <<>>
    /\ asPhase = "idle"
    /\ pending = FALSE
    /\ notices = <<>>
    /\ unhandled = NoError
    /\ rendered = <<>>

\* searchForBootVersion: readXmlContent gives the one root element of the pom, and the
\* boot version is looked up in its project element; the poms here with one project
\* element stand for poms of a Spring Boot project, the others have no boot version
HasBootVersion(text) == Len(getNodesByTag(text, "project")) = 1

\* the command runs AddStartersHandler.run up to the prompt "Proceed?": runSteps, lines
\* 21-91, with the starters to add picked; without a boot version runSteps throws, and
\* BaseHandler.run shows the error and throws it on
AddStartersBegin ==
    /\ asPhase \in {"idle", "done", "failed"}
    /\ ~pending
    /\ Len(pomCalls) < MaxPatches
    /\ IF HasBootVersion(pomText)
       THEN /\ asPhase' = "proceed"
            /\ shown' = <<>>
            /\ thrown' = NoError
       ELSE /\ asPhase' = "failed"
            /\ shown' = <<<<AddStartersFailureMessage,
                            "Not within a valid Spring Boot project.">>>>
            /\ thrown' = "Not within a valid Spring Boot project."
    /\ notices' = <<>>
    /\ unhandled' = NoError
    /\ UNCHANGED <<pomText, editor, pomDeps, pomBoms, pomCalls, pending, rendered>>
    /\ UNCHANGED <<hostVars, historyFile, dmVars, cfg, defaults, phase, step, prompting,
                   metadata, pickSteps, defaultInput, staleInput, downloaded, outputUri, overrideChoice, lastStep,
                   outcome, stackBefore, completed, answered>>

\* while a prompt of the handler is open, the user changes the text of the pom
UserEditsPom(text) ==
    /\ asPhase = "proceed"
    /\ pomCalls = <<>>
    /\ pomText' = text
    /\ UNCHANGED <<editor, pomDeps, pomBoms, pomCalls, asPhase, pending, notices,
                   unhandled, rendered>>
    /\ UNCHANGED <<hostVars, historyFile, dmVars, wizVars>>

\* the user answers the prompt "Proceed?": runSteps, lines 90-102.  updatePom is called
\* and not awaited; the message is shown and run() resolves.
AddStartersProceed(choice) ==
    /\ asPhase = "proceed"
    /\ asPhase' = "done"
    /\ IF choice = "Proceed"
       THEN /\ pending' = TRUE
            /\ notices' = Append(notices, "Pom file successfully updated.")
       ELSE UNCHANGED <<pending, notices>>
    /\ UNCHANGED <<pomText, editor, pomDeps, pomBoms, pomCalls, unhandled, rendered>>
    /\ UNCHANGED <<hostVars, historyFile, dmVars, wizVars>>

\* the updatePom call that nobody awaits runs: it applies its edit, or rejects
UpdatePom ==
    /\ pending
    /\ pending' = FALSE
    /\ \E result \in {updatePom(pomText, PomUri, pomDeps, pomBoms, editor)} :
           /\ pomText' = ApplyAll(pomText, result.applied, PomUri)
           /\ pomCalls' = Append(pomCalls, [before |-> pomText, error |-> result.error,
                                            applied |-> result.applied])
           /\ unhandled' = result.error
    /\ UNCHANGED <<editor, pomDeps, pomBoms, asPhase, notices, rendered>>
    /\ UNCHANGED <<hostVars, historyFile, dmVars, wizVars>>

-----------------------------------------------------------------------------
(* Specification SpecDM: one DependencyManager after another, each seeded by *)
(* the generate-project flow or by the add-starters flow                     *)

\* what a caller may pass as defaults.dependencies
Seeds == {Null} \cup {Some(s) : s \in SeqsUpTo(Ids, MaxSeed)}

\* the keys of starters.dependencies, in the order Object.keys gives them
StarterKeys == <<IdA, IdB>>

\* an entry of starters.dependencies: an IMavenId with the id of its bom, if it has one
Starter(groupId, artifactId, bom) ==
    [groupId |-> groupId, artifactId |-> artifactId, version |-> Null, scope |-> Null,
     bom |-> bom]

CloudBomId == <<"cloud">>

\* the starters a service may describe: two starters of one bom; one starter with a
\* bom and one without; two keys for one groupId:artifactId
StartersOf(a, b) ==
    [dependencies |-> (IdA :> a @@ IdB :> b), boms |-> (CloudBomId :> PlainBom)]
SharedBomStarters ==
    StartersOf(Starter(<<"g">>, <<"a">>, Some(CloudBomId)),
               Starter(<<"h">>, <<"b">>, Some(CloudBomId)))
StarterSets ==
    {SharedBomStarters,
     StartersOf(Starter(<<"g">>, <<"a">>, Some(CloudBomId)), Starter(<<"h">>, <<"b">>, Null)),
     StartersOf(Starter(<<"g">>, <<"a">>, Null), Starter(<<"g">>, <<"a">>, Null))}

\* `${elem.groupId}:${elem.artifactId}`
Coordinates(elem) == elem.groupId \o <<":">> \o elem.artifactId

\* what the pom may declare: deps of AddStartersHandler.runSteps, lines 28-36
DeclaredSets == SUBSET {<<"g">> \o <<":">> \o <<"a">>, <<"h">> \o <<":">> \o <<"b">>}

\* AddStartersHandler.runSteps, lines 53-58: the keys of the starters the pom declares
oldStarterIdsOf(st, deps) ==
    SelectSeq(StarterKeys, LAMBDA key : Coordinates(st.dependencies[key]) \in deps)

\* line 76 as a bug would have it: the starters of the pom are not taken out
toAddUnfiltered(sel, old) == sel

\* line 76: dependencyManager.selectedIds.filter((elem) => oldStarterIds.indexOf(elem) < 0)
toAddOf(sel, old) == SelectSeq(sel, LAMBDA elem : IndexOf(old, elem) < 0)

\* line 97: toAdd.map((id) => starters.dependencies[id])
artifactsOf(toAdd, st) == [i \in 1..Len(toAdd) |-> st.dependencies[toAdd[i]]]

\* lines 98-99: the boms of the starters to add, one for each starter that has one
bomsOf(toAdd, st) ==
    LET bomIds == SelectSeq([i \in 1..Len(toAdd) |-> st.dependencies[toAdd[i]].bom],
                            LAMBDA id : ~id.null /\ id.s # <<>>)
    IN  [i \in 1..Len(bomIds) |-> st.boms[bomIds[i].s]]

\* what reading a property of undefined throws
TypeError == "Cannot read properties of undefined"

ManagerAbsent ==
    /\ flow = "none"
    /\ oldStarterIds = <<>>
    /\ dependencies = <<>>
    /\ dict = <<>>
    /\ selectedIds = <<>>
    /\ lastselected = Null
    /\ aliased = FALSE
    /\ listed = FALSE
    /\ hist = <<>>

\* no wizard has run
WizardIdle ==
    /\ defaults = NoDefaults
    /\ phase = "idle"
    /\ step = NoStep
    /\ prompting = FALSE
    /\ metadata = NoMetadata
    /\ pickSteps = <<>>
    /\ shown = <<>>
    /\ thrown = NoError
    /\ downloaded = FALSE
    /\ outputUri = NoFolder
    /\ overrideChoice = "none"
    /\ lastStep = NoStep
    /\ outcome = "none"
    /\ stackBefore = <<>>
    /\ completed = 0
    /\ answered = 0

InitDM ==
    /\ catalog \in Catalogs
    /\ starters \in StarterSets
    /\ historyFile \in {Null, Some(IdB \o Comma \o IdA)}
    /\ extensionRoot \in {TRUE} \cup {r \in {FALSE} : ~historyFile.null}
    /\ PatcherAbsent
    /\ ManagerAbsent
    /\ cfg = AllPrompts
    /\ defaultInput = resetDefaultInputs(cfg, NoInputs)
    /\ staleInput = defaultInput
    /\ WizardIdle

\* SpecifyDependenciesStep.specifyDependencies is entered with the caller's defaults
DmNewGenerate(seed) ==
    /\ flow = "none"
    /\ flow' = "generate"
    /\ oldStarterIds' = <<>>
    /\ defaults' = [defaults EXCEPT !.dependencies = seed]
    /\ OpenDependencies(defaults')
    /\ UNCHANGED <<envVars, wizRest>>

\* AddStartersHandler.runSteps, lines 21-62, with a boot version found and a service
\* URL at hand: the starters whose groupId:artifactId the pom declares (deps) are
\* selected from the start
DmNewAddStarters(deps) ==
    /\ flow = "none"
    /\ flow' = "addStarters"
    /\ oldStarterIds' = oldStarterIdsOf(starters, deps)
    /\ NewManager(oldStarterIds', FALSE)
    /\ asPhase' = "select"
    /\ notices' = <<>>
    /\ pomDeps' = <<>>
    /\ pomBoms' = <<>>
    /\ shown' = <<>>
    /\ thrown' = NoError
    /\ UNCHANGED <<pomText, editor, pomCalls, pending, unhandled, rendered>>
    /\ UNCHANGED <<hostVars, historyFile, cfg, defaults, phase, step, prompting, metadata,
                   pickSteps, defaultInput, staleInput, downloaded, outputUri, overrideChoice, lastStep, outcome,
                   stackBefore, completed, answered>>

\* add-starters: the user picks an item that is no dependency, and the loop ends:
\* AddStartersHandler.runSteps, lines 72-91, up to the prompt "Proceed?".  The names
\* for the prompt are read from dict, which has no entry for an id that is empty.
\* How the generate-project flow completes, persisting the picked id, is an action
\* of Spec.
DmFinish(item) ==
    /\ flow = "addStarters"
    /\ listed
    /\ item.itemType # "dependency"
    /\ \E toAdd \in {toAddOf(selectedIds, oldStarterIds)} :
          IF Len(toAdd) = 0
          THEN /\ DropManager
               /\ lastselected' = Null
               /\ asPhase' = "done"
               /\ notices' = Append(notices, "No changes.")
               /\ UNCHANGED <<shown, thrown>>
          ELSE IF \E i \in 1..Len(toAdd) : toAdd[i] \notin DOMAIN dict
          THEN /\ DropManager
               /\ lastselected' = Null
               /\ asPhase' = "failed"
               /\ shown' = Append(shown, <<AddStartersFailureMessage, TypeError>>)
               /\ thrown' = TypeError
               /\ UNCHANGED notices
          ELSE /\ listed' = FALSE
               /\ asPhase' = "proceed"
               /\ UNCHANGED <<flow, oldStarterIds, dependencies, dict, selectedIds,
                              lastselected, aliased, hist, notices, shown, thrown>>
    /\ UNCHANGED <<pomText, editor, pomDeps, pomBoms, pomCalls, pending, unhandled, rendered>>
    /\ UNCHANGED <<hostVars, historyFile, cfg, defaults, phase, step, prompting, metadata,
                   pickSteps, defaultInput, staleInput, downloaded, outputUri, overrideChoice, lastStep, outcome,
                   stackBefore, completed, answered>>

\* add-starters: the user answers the prompt "Proceed?": AddStartersHandler.runSteps,
\* lines 90-102.  The artifacts and the boms of the starters to add are handed to
\* updatePom, which is not awaited, and the message is shown.
DmProceed(choice) ==
    /\ flow = "addStarters"
    /\ asPhase = "proceed"
    /\ asPhase' = "done"
    /\ IF choice = "Proceed"
       THEN /\ pomDeps' = artifactsOf(toAddOf(selectedIds, oldStarterIds), starters)
            /\ pomBoms' = bomsOf(toAddOf(selectedIds, oldStarterIds), starters)
            /\ pending' = TRUE
            /\ notices' = Append(notices, "Pom file successfully updated.")
       ELSE UNCHANGED <<pomDeps, pomBoms, pending, notices>>
    /\ DropManager
    /\ lastselected' = Null
    /\ UNCHANGED <<pomText, editor, pomCalls, unhandled, rendered>>
    /\ UNCHANGED <<hostVars, historyFile, wizVars>>

\* the user dismisses the quick pick: the loop ends
DmDismiss ==
    /\ flow # "none"
    /\ listed
    /\ DropManager
    /\ lastselected' = Null
    /\ defaults' = NoDefaults
    /\ asPhase' = IF flow = "addStarters" THEN "done" ELSE asPhase
    /\ UNCHANGED <<pomText, editor, pomDeps, pomBoms, pomCalls, pending, notices,
                   unhandled, rendered>>
    /\ UNCHANGED <<hostVars, historyFile, wizRest>>

NextDM ==
    \/ \E seed \in Seeds : DmNewGenerate(seed)
    \/ \E deps \in DeclaredSets : DmNewAddStarters(deps)
    \/ GetQuickPickItems
    \/ PickSomeDependency
    \/ \E i \in 1..Len(CurrentItems) : DmFinish(CurrentItems[i])
    \/ \E choice \in {"Proceed", "Cancel"} : DmProceed(choice)
    \/ DmDismiss

SpecDM == InitDM /\ [][NextDM]_vars

-----------------------------------------------------------------------------
(* Specification Spec: generate-project runs, one after another in one process *)

Init ==
    /\ catalog \in {<<Web, Jpa>>, <<Jpa>>}
    /\ starters = SharedBomStarters
    /\ historyFile = Null
    /\ extensionRoot \in BOOLEAN
    /\ PatcherAbsent
    /\ ManagerAbsent
    /\ cfg \in Configurations
    /\ defaultInput = resetDefaultInputs(cfg, NoInputs)
    /\ staleInput = defaultInput
    /\ WizardIdle

Next ==
    \/ \E d \in WizardDefaults : StartRun(d)
    \/ ExecServiceUrl
    \/ \E answer \in {Dismissed, Entered(UrlU), Entered(UrlV)} : AnswerServiceUrl(answer)
    \/ \E s \in Steps : \E answer \in Answers(s) : ExecStep(s, answer)
    \/ ExecDependencies
    \/ GetQuickPickItems
    \/ PickSomeDependency
    \/ \E i \in 1..Len(CurrentItems) : FinishDependencies(CurrentItems[i])
    \/ DismissDependencies
    \/ \E input \in Folders \cup {NoFolder} : SpecifyTargetFolder(input)
    \/ \E choice \in {"Continue", "Choose another folder", "undefined"} :
          \E input \in Folders \cup {NoFolder} : AnswerOverwrite(choice, input)
    \/ \E result \in DownloadResults : DownloadAndUnzip(result)

Spec == Init /\ [][Next]_vars

-----------------------------------------------------------------------------
(* Specification SpecPom: add-starters commands on one pom, one after another *)

InitPom ==
    /\ catalog = <<>>
    /\ starters = SharedBomStarters
    /\ historyFile = Null
    /\ extensionRoot = TRUE
    /\ ManagerAbsent
    /\ cfg = AllPrompts
    /\ defaultInput = resetDefaultInputs(cfg, NoInputs)
    /\ staleInput = defaultInput
    /\ WizardIdle
    /\ pomText \in Documents
    /\ editor \in EditorOptions
    /\ pomDeps \in ArtifactLists
    /\ pomBoms \in BomLists
    /\ pomCalls = <<>>
    /\ asPhase = "idle"
    /\ pending = FALSE
    /\ notices = <<>>
    /\ unhandled = NoError
    /\ rendered = <<>>

NextPom ==
    \/ AddStartersBegin
    \/ \E text \in Documents : UserEditsPom(text)
    \/ \E choice \in {"Proceed", "Cancel"} : AddStartersProceed(choice)
    \/ UpdatePom

SpecPom == InitPom /\ [][NextPom]_vars

-----------------------------------------------------------------------------
(* Specification SpecRender: getTextLines called again and again on the nodes of a run *)

\* the nodes updatePom makes of its lists: new DependencyNodes(deps), new
\* DependencyNodes(deps, { initParent: true }), new BOMNodes(boms), new BOMNodes(boms,
\* { parents })
PomNodes ==
    {DependencyNodes(pomDeps, initParent) : initParent \in BOOLEAN}
    \cup {BOMNodes(pomBoms, parents) :
             parents \in {<<>>, <<"dependencies">>, <<"dependencies", "dependencyManagement">>}}

\* nodeToInsert.getTextLines(indent), constructNodeText line 54
GetTextLines(node) ==
    /\ Len(rendered) < MaxRenders
    /\ rendered' = Append(rendered, [node |-> node, indent |-> Indent(editor),
                                     lines |-> getTextLines(node, Indent(editor))])
    /\ UNCHANGED <<pomText, editor, pomDeps, pomBoms, pomCalls, asPhase, pending, notices,
                   unhandled>>
    /\ UNCHANGED <<hostVars, historyFile, dmVars, wizVars>>

InitRender ==
    /\ catalog = <<>>
    /\ starters = SharedBomStarters
    /\ historyFile = Null
    /\ extensionRoot = TRUE
    /\ ManagerAbsent
    /\ cfg = AllPrompts
    /\ defaultInput = resetDefaultInputs(cfg, NoInputs)
    /\ staleInput = defaultInput
    /\ WizardIdle
    /\ pomText = <<>>
    /\ editor \in EditorOptions
    /\ pomDeps \in ArtifactLists
    /\ pomBoms \in BomLists
    /\ pomCalls = <<>>
    /\ asPhase = "idle"
    /\ pending = FALSE
    /\ notices = <<>>
    /\ unhandled = NoError
    /\ rendered = <<>>

NextRender == \E node \in PomNodes : GetTextLines(node)

SpecRender == InitRender /\ [][NextRender]_vars

-----------------------------------------------------------------------------
(* The wizard: claims C1 to C6 *)

\* the chain of the wizard, each step followed by its successor
Chain == <<"ServiceUrl", "BootVersion", "Language", "GroupId", "ArtifactId", "PackageName",
           "Packaging", "JavaVersion", "Dependencies", NoStep>>
Successor(s) == Chain[(CHOOSE i \in 1..(Len(Chain) - 1) : Chain[i] = s) + 1]

\* this step of the model is one execute that came to its end, with a value, by a
\* default, or with its prompt dismissed
StepExecuted ==
    /\ <<lastStep, outcome>>' # <<lastStep, outcome>>
    /\ lastStep' # NoStep
    /\ outcome' # "open"

\* the steps that must have a value
StrictlyRequired == {"ServiceUrl", "BootVersion", "Language", "GroupId", "ArtifactId",
                     "PackageName", "Packaging"}

\* the defaults of the host, as the three singletons cache them
ConfiguredInputs ==
    [artifactId |-> cfg.artifactId, groupId |-> cfg.groupId, packageName |-> cfg.packageName]

\* C1 as claimed: when the prompt of a step other than the first is dismissed while the
\* navigation stack is not empty, execute raises no error, pops the top of the stack
\* and returns the popped step as the next step.
C1_DismissalGoesBack ==
    [][(StepExecuted /\ outcome' = "dismissed" /\ lastStep' # "ServiceUrl"
            /\ stackBefore' # <<>>)
        => /\ thrown' = NoError
           /\ step' = Pop(stackBefore')
           /\ pickSteps' = Popped(stackBefore')]_vars

C4_DismissalWithEmptyStackAborts ==
    [][/\ (StepExecuted /\ outcome' = "dismissed" /\ lastStep' \in StrictlyRequired
               /\ stackBefore' = <<>>)
          => /\ thrown' = NotSpecified(lastStep')
             /\ shown' = Append(shown, <<failureMessage, NotSpecified(lastStep')>>)
             /\ phase' = "failed"
             /\ step' = NoStep
             /\ ~downloaded'
             /\ UNCHANGED <<metadata, historyFile>>
       /\ phase = "failed"
          => \/ phase' = "steps" /\ lastStep' = NoStep /\ step' = "ServiceUrl"
             \/ UNCHANGED <<phase, step, lastStep, outcome, metadata, pickSteps, downloaded,
                            thrown, shown, historyFile>>]_vars

\* C4 witness: the boot version pick, the first prompt of the run, was dismissed
C4_BootVersionDismissed ==
    /\ phase = "failed"
    /\ lastStep = "BootVersion"
    /\ outcome = "dismissed"
    /\ stackBefore = <<>>
    /\ thrown = "BootVersion not specified."
    /\ shown = <<<<failureMessage, "BootVersion not specified.">>>>
    /\ ~downloaded

\* C5: a run starts with ServiceUrl; a step that completes is followed by its successor
\* in the chain ServiceUrl, BootVersion, Language, GroupId, ArtifactId, PackageName,
\* Packaging, JavaVersion, Dependencies, end; and the only other change from one step
\* to another is the jump back to the step popped from pickSteps.
C5_ChainOrderOrJumpBack ==
    [][/\ (StepExecuted /\ outcome' \in {"answered", "defaulted"})
          => step' = Successor(lastStep')
       /\ (phase = "steps" /\ phase' # "failed" /\ step' # step)
          => \/ step' = Successor(step)
             \/ /\ pickSteps # <<>>
                /\ step' = Pop(pickSteps)
                /\ pickSteps' = Popped(pickSteps)
       /\ (phase # "steps" /\ phase' = "steps") => step' = "ServiceUrl"]_vars

\* C5 witness: the dependency list was dismissed and the run jumped back to JavaVersion
C5_JumpedBack ==
    /\ phase = "steps"
    /\ lastStep = "Dependencies"
    /\ outcome = "dismissed"
    /\ step = "JavaVersion"
    /\ Len(pickSteps) = Len(stackBefore) - 1

\* C6: when the first step of a run is about to execute, the cached default inputs of
\* the ArtifactId, GroupId and PackageName steps are the defaults configured at the
\* host, whatever was entered in earlier runs.
C6_DefaultInputsResetAtRunStart ==
    (phase = "steps" /\ step = "ServiceUrl" /\ lastStep = NoStep)
        => defaultInput = ConfiguredInputs

\* C6 witness: a run starts after a run in which all three inputs were entered
C6_RunStartsAfterInputs ==
    /\ phase = "steps"
    /\ step = "ServiceUrl"
    /\ lastStep = NoStep
    /\ staleInput.artifactId = Some(<<"x">>)
    /\ staleInput.groupId = Some(<<"x">>)
    /\ staleInput.packageName = Some(<<"x">>)
    /\ staleInput # ConfiguredInputs
    /\ defaultInput = ConfiguredInputs

-----------------------------------------------------------------------------
(* The dependency selector: claims C7 to C10 *)

\* initialize(catalog) has run on the manager at hand
Initialized == flow # "none" /\ (listed \/ Len(dependencies) > 0)

SelectedView == getSelectedDependencies(selectedIds, dict)
UnselectedView == getUnselectedDependencies(dependencies, selectedIds)

\* the last entry of the loaded list that has the id
IsLastWithId(e) ==
    \E i \in 1..Len(dependencies) :
        /\ dependencies[i] = e
        /\ \A j \in (i + 1)..Len(dependencies) : dependencies[j].id # e.id

DefinedIndexes == {i \in 1..Len(catalog) : catalog[i].defined}
NthDefined(k) == CHOOSE i \in DefinedIndexes : Cardinality({j \in DefinedIndexes : j <= i}) = k

\* C7: two toggleDependency calls in a row with the same id leave the selection,
\* taken as a set of ids, as it was before the two calls.
C7_TogglePairRestoresSelection ==
    (Len(hist) = 2 /\ hist[1].id = hist[2].id)
        => ToSet(selectedIds) = ToSet(hist[1].before)

\* C7 witness: an id that was selected has been toggled off and on again
C7_ToggledTwice ==
    /\ Len(hist) = 2
    /\ hist[1].id = hist[2].id
    /\ hist[1].id \in ToSet(hist[1].before)
    /\ Len(hist[1].before) > 1

C9_SelectionHasNoDuplicates == NoDuplicates(selectedIds)

-----------------------------------------------------------------------------
(* The dependency selector: claim C11 *)

\* C11: when the history file or the extension root does not exist, reading the last
\* used list gives nothing and no error: initialize completes, the manager holds no
\* last used list, and the list it displays has no last-used entry.
C11_MissingHistoryGivesNoLastUsed ==
    (Initialized /\ listed /\ (~extensionRoot \/ historyFile.null))
        => /\ lastselected = Null
           /\ \A i \in 1..Len(CurrentItems) : CurrentItems[i].itemType # "lastUsed"

\* C11 witness: a non-empty catalog was loaded and listed for the generate-project
\* flow with nothing selected, and there is no history file
C11_ListedWithoutHistory ==
    /\ Initialized
    /\ listed
    /\ flow = "generate"
    /\ extensionRoot
    /\ historyFile.null
    /\ selectedIds = <<>>
    /\ Len(dependencies) > 0
    /\ Len(CurrentItems) > 0

-----------------------------------------------------------------------------
(* The pom patcher: claims C12 to C20 *)

\* the text of the pom after the k-th updatePom call
After(k) == IF k < Len(pomCalls) THEN pomCalls[k + 1].before ELSE pomText
\* the k-th call applied its edit; the k-th call was rejected
Succeeded(k) == pomCalls[k].error = NoError
\* the text without its white space
Strip(text) == SelectSeq(text, LAMBDA tok : ~IsSpace(tok))
\* part is a piece of text
Contains(text, part) ==
    \E i \in 0..(Len(text) - Len(part)) : SubSeq(text, i + 1, i + Len(part)) = part
\* all the text the workspace edits of the k-th call insert in the pom
EditText(k) ==
    Flatten([e \in 1..Len(pomCalls[k].applied) |->
                Flatten([j \in 1..Len(pomCalls[k].applied[e][PomUri]) |->
                            pomCalls[k].applied[e][PomUri][j].newText])])
\* the dependency elements of the artifacts and of the boms, as the rendering rules give
\* them, without white space
ArtifactText(artifact) == Strip(Flatten(toTextLine(artifact, <<>>)))
BomText(bom) ==
    <<O("dependency")>> \o TagLine("groupId", bom.groupId)
    \o TagLine("artifactId", bom.artifactId) \o TagLine("version", bom.version)
    \o TagLine("type", <<"pom">>) \o TagLine("scope", <<"import">>) \o <<C("dependency")>>
AllArtifactsText == Flatten([i \in 1..Len(pomDeps) |-> ArtifactText(pomDeps[i])])
\* the project element of a text with one project element, and its dependencies child
ProjectOf(text) == getNodesByTag(text, "project")[1]
DependenciesOf(text) == FindChild(text, ProjectOf(text), "dependencies")
\* after is before with new text inserted at a place from whose token on only white
\* space is before the token target, and the new text, without white space, is expected
InsertedBefore(before, after, target, expected) ==
    \E at \in 1..target :
        /\ IsBlank(SubSeq(before, at, target - 1))
        /\ Len(after) >= Len(before)
        /\ SubSeq(after, 1, at - 1) = SubSeq(before, 1, at - 1)
        /\ SubSeq(after, at + Len(after) - Len(before), Len(after))
              = SubSeq(before, at, Len(before))
        /\ Strip(SubSeq(after, at, at + Len(after) - Len(before) - 1)) = expected
\* how many tokens of the text are the start tag <name>
StartTags(text, name) == Cardinality({i \in 1..Len(text) : text[i] = O(name)})

\* C12: when the document does not hold exactly one project element (none, or
\* several), updatePom fails with an error, applies no edit, and the text of the
\* document is as it was.
C12_NoSingleProjectNoEdit ==
    \A k \in 1..Len(pomCalls) :
        Len(getNodesByTag(pomCalls[k].before, "project")) # 1
            => /\ pomCalls[k].error = SINGLE_PROJECT_ONLY
               /\ pomCalls[k].applied = <<>>
               /\ After(k) = pomCalls[k].before

\* C12 witness: updatePom has run on a pom with two project elements
C12_PatchedTwoProjects ==
    /\ Len(pomCalls) = 1
    /\ pomCalls[1].before = TwoProjectsPom
    /\ pomText = TwoProjectsPom

\* C13 as claimed: in the add-starters flow, when the patcher fails on its
\* precondition, the handler reports the failure message with the error and does not
\* report that the pom was updated.
C13_PatcherFailureIsReported ==
    (pomCalls # <<>> /\ ~Succeeded(Len(pomCalls)) /\ asPhase = "done")
        => /\ \E i \in 1..Len(shown) :
                 shown[i] = <<AddStartersFailureMessage, pomCalls[Len(pomCalls)].error>>
           /\ \A i \in 1..Len(notices) : notices[i] # "Pom file successfully updated."

\* C14 as claimed: the edit a successful updatePom call applies holds the rendered text
\* of every artifact and of every bom it was given.
C14_EditHoldsAllFragments ==
    \A k \in 1..Len(pomCalls) :
        Succeeded(k)
            => /\ \A i \in 1..Len(pomDeps) :
                     Contains(Strip(EditText(k)), ArtifactText(pomDeps[i]))
               /\ \A i \in 1..Len(pomBoms) :
                     Contains(Strip(EditText(k)), BomText(pomBoms[i]))

\* C15: a successful updatePom call applies exactly one workspace edit, and the edit
\* has changes for exactly one document, the pom.
C15_OneEditOneDocument ==
    \A k \in 1..Len(pomCalls) :
        Succeeded(k)
            => /\ Len(pomCalls[k].applied) = 1
               /\ DOMAIN pomCalls[k].applied[1] = {PomUri}
               /\ After(k) # pomCalls[k].before

\* C15 witness: a call with artifacts and boms has succeeded
C15_PatchedWithBoms ==
    /\ pomCalls # <<>>
    /\ Succeeded(1)
    /\ Len(pomBoms) = 2
    /\ pomCalls[1].before = ManagedPom

\* C16: without boms, when the project has a dependencies child that ends with an end
\* tag, the new dependency elements are inserted, not wrapped, before that end tag with
\* only white space between; when the project has no dependencies child, the new
\* elements wrapped in a new dependencies element are inserted before the end tag of
\* the project with only white space between.
C16_InsertedBeforeEndTag ==
    \A k \in 1..Len(pomCalls) :
        (Succeeded(k) /\ pomBoms = <<>>)
            => LET before == pomCalls[k].before
                   child == DependenciesOf(before)
               IN  IF child = <<>>
                   THEN InsertedBefore(before, After(k), ProjectOf(before).end,
                                       <<O("dependencies")>> \o AllArtifactsText
                                       \o <<C("dependencies")>>)
                   ELSE before[child[1].end].k = "close"
                        => InsertedBefore(before, After(k), child[1].end, AllArtifactsText)

\* C16 witness: both cases have happened, one call after the other on one pom
C16_PatchedPlainPomTwice ==
    /\ Len(pomCalls) = 2
    /\ Succeeded(1)
    /\ Succeeded(2)
    /\ pomBoms = <<>>
    /\ pomCalls[1].before = PlainPom
    /\ DependenciesOf(pomCalls[2].before) # <<>>

\* C17 as claimed: after updatePom with one artifact on a pom whose project holds an
\* empty self-closing dependencies element, that dependencies element holds exactly the
\* one new dependency entry, and the text outside the insertion is as it was.
C17_SelfClosingDependenciesFilled ==
    \A k \in 1..Len(pomCalls) :
        LET before == pomCalls[k].before
        IN  ( /\ Succeeded(k) /\ pomBoms = <<>> /\ Len(pomDeps) = 1
              /\ DependenciesOf(before) # <<>>
              /\ before[DependenciesOf(before)[1].end].k = "empty" )
            => /\ DependenciesOf(After(k)) # <<>>
               /\ Strip(SubSeq(After(k), DependenciesOf(After(k))[1].start + 1,
                               DependenciesOf(After(k))[1].end - 1))
                     = ArtifactText(pomDeps[1])
               /\ \E at \in 1..(Len(before) + 1) :
                     /\ SubSeq(After(k), 1, at - 1) = SubSeq(before, 1, at - 1)
                     /\ SubSeq(After(k), at + Len(After(k)) - Len(before), Len(After(k)))
                           = SubSeq(before, at, Len(before))

\* C18 as claimed: a second updatePom call with the same lists on the patched document
\* leaves the document as the first call left it.
C18_SecondPatchChangesNothing ==
    (Len(pomCalls) >= 2 /\ Succeeded(1) /\ Succeeded(2)) => After(2) = After(1)

\* C18 as amended: the insertion is not idempotent.  A second updatePom call with the
\* same lists on the patched document inserts as many dependency elements as the first
\* call did, at least one, so that the entries the first call added are there twice.
C18_SecondPatchInsertsAgain ==
    (Len(pomCalls) >= 2 /\ Succeeded(1) /\ Succeeded(2))
        => /\ After(2) # After(1)
           /\ StartTags(After(1), "dependency") > StartTags(pomCalls[1].before, "dependency")
           /\ StartTags(After(2), "dependency") - StartTags(After(1), "dependency")
                 = StartTags(After(1), "dependency")
                   - StartTags(pomCalls[1].before, "dependency")

\* C18 witness: updatePom has succeeded twice on a pom with a dependencies element
C18_PatchedTwice ==
    /\ Len(pomCalls) = 2
    /\ Succeeded(1)
    /\ Succeeded(2)
    /\ pomCalls[1].before = DependenciesPom
    /\ pomCalls[2].before = After(1)

\* C19: the rendered dependency element of an artifact holds groupId and artifactId
\* always, a version element exactly when a version is given (a non-empty string), and
\* a scope element exactly when a scope is given (a non-empty string) that is not
\* "compile"; and this is what a successful call without boms inserts in the pom.
C19_ArtifactRendering ==
    /\ \A i \in 1..Len(pomDeps) :
          LET element == Flatten(toTextLine(pomDeps[i], Indent(editor)))
          IN  /\ Contains(element, TagLine("groupId", pomDeps[i].groupId))
              /\ Contains(element, TagLine("artifactId", pomDeps[i].artifactId))
              /\ StartTags(element, "version") = (IF Truthy(pomDeps[i].version) THEN 1 ELSE 0)
              /\ Truthy(pomDeps[i].version)
                    => Contains(element, TagLine("version", pomDeps[i].version.s))
              /\ StartTags(element, "scope")
                    = (IF Truthy(pomDeps[i].scope) /\ pomDeps[i].scope.s # <<"compile">>
                       THEN 1 ELSE 0)
              /\ StartTags(element, "scope") = 1
                    => Contains(element, TagLine("scope", pomDeps[i].scope.s))
    /\ \A k \in 1..Len(pomCalls) :
          (Succeeded(k) /\ pomBoms = <<>>)
              => /\ StartTags(After(k), "groupId") - StartTags(pomCalls[k].before, "groupId")
                       = Len(pomDeps)
                 /\ StartTags(After(k), "scope") - StartTags(pomCalls[k].before, "scope")
                       = Cardinality({i \in 1..Len(pomDeps) :
                                         /\ Truthy(pomDeps[i].scope)
                                         /\ pomDeps[i].scope.s # <<"compile">>})
                 /\ StartTags(After(k), "version") - StartTags(pomCalls[k].before, "version")
                       = Cardinality({i \in 1..Len(pomDeps) : Truthy(pomDeps[i].version)})

\* C19 witness: an artifact with a version and the scope "compile" was patched in
C19_PatchedCompileScope ==
    /\ pomCalls # <<>>
    /\ Succeeded(1)
    /\ pomBoms = <<>>
    /\ pomDeps = <<Artifact(Some(<<"1">>), Some(<<"compile">>))>>
    /\ Contains(pomText, TagLine("version", <<"1">>))

\* C20: the rendered dependency element of a bom holds groupId, artifactId, version,
\* the type pom and the scope import, whatever type and scope the bom has; and this is
\* what a successful call with boms inserts in the pom.
C20_BomRendering ==
    /\ \A i \in 1..Len(pomBoms) :
          Strip(Flatten(bomToTextLine(pomBoms[i], Indent(editor)))) = BomText(pomBoms[i])
    /\ \A k \in 1..Len(pomCalls) :
          Succeeded(k)
              => \A i \in 1..Len(pomBoms) : Contains(Strip(After(k)), BomText(pomBoms[i]))

\* C20 witness: a bom with a type and a scope of its own was patched in
C20_PatchedTypedBom ==
    /\ pomCalls # <<>>
    /\ Succeeded(1)
    /\ pomBoms = <<TypedBom, PlainBom>>
    /\ Contains(Strip(pomText), BomText(TypedBom))

-----------------------------------------------------------------------------
(* The wizard and the selector: claims C21 to C25 *)

\* the field of the descriptor an input step writes, and what the input is checked with
InputField(s) ==
    CASE s = "GroupId" -> "groupId" [] s = "ArtifactId" -> "artifactId"
      [] OTHER -> "packageName"
Malformed(s, value) ==
    CASE s = "GroupId" -> groupIdValidation(value) = "Invalid Group Id"
      [] s = "ArtifactId" -> artifactIdValidation(value) = "Invalid Artifact Id"
      [] OTHER -> packageNameValidation(value) = "Invalid Package Name"

\* C21 as claimed: when the GroupId, ArtifactId or PackageName step was answered with
\* an input that does not match the pattern of the identifier, the input is not in the
\* descriptor, the step is not pushed on pickSteps, and the same step is next.  (The
\* input box hands every input to setDefaultInput, so that defaultInput tells the input.)
C21_MalformedInputBlocks ==
    \A s \in {"GroupId", "ArtifactId", "PackageName"} :
        ( /\ lastStep = s
          /\ outcome = "answered"
          /\ ~defaultInput[InputField(s)].null
          /\ Malformed(s, defaultInput[InputField(s)].s) )
        => /\ metadata[InputField(s)] # defaultInput[InputField(s)]
           /\ pickSteps = stackBefore
           /\ step = s

\* C22 as claimed: before the final confirmation of a flow no external effect takes
\* place.  Generate-project: until the target folder is confirmed no archive is
\* downloaded and the last-used file is not written; add-starters: until the user
\* picks Proceed updatePom does not run.
C22_NoEffectBeforeConfirmation ==
    [][ /\ phase # "download" => (downloaded' => downloaded) /\ historyFile' = historyFile
        /\ ~pending => pomCalls' = pomCalls
        /\ UNCHANGED <<catalog, extensionRoot, cfg>> ]_vars

UnselectedEntry(item) == item.itemType = "dependency" /\ Len(item.label) = 1

\* C24 as claimed: among the unselected entries of the display list a separator is put
\* wherever the group of an entry differs from the group of the unselected entry before
\* it: two unselected entries next to each other are of one group.
C24_SeparatorAtGroupChange ==
    (Initialized /\ listed)
        => \A i \in 2..Len(CurrentItems) :
               (UnselectedEntry(CurrentItems[i - 1]) /\ UnselectedEntry(CurrentItems[i]))
                   => CurrentItems[i - 1].description = CurrentItems[i].description

\* the ids of the last-used file that the catalog has, in the order of the file
PersistedInCatalog ==
    IF ~extensionRoot \/ historyFile.null THEN <<>>
    ELSE SelectSeq(Split(historyFile.s, ","),
                   LAMBDA id : \E i \in 1..Len(catalog) :
                                   catalog[i].defined /\ catalog[i].id = id)

-----------------------------------------------------------------------------
(* The pom patcher: claims C26 to C29 *)

AllBomsText == Flatten([i \in 1..Len(pomBoms) |-> BomText(pomBoms[i])])
\* the dependencyManagement child of the project of a text, and its dependencies child
ManagementOf(text) == FindChild(text, ProjectOf(text), "dependencyManagement")
ManagedDependenciesOf(text) ==
    IF ManagementOf(text) = <<>> THEN <<>>
    ELSE FindChild(text, ManagementOf(text)[1], "dependencies")
\* the text edits of the edits the k-th call applied
TextEdits(k) ==
    Flatten([e \in 1..Len(pomCalls[k].applied) |-> pomCalls[k].applied[e][PomUri]])
\* the k-th call applied a text edit that inserts the expected text (without white
\* space) at a place from which on only white space is before the end tag target, which
\* has the expected text right before it afterwards
EditInsertsBefore(k, target, expected) ==
    /\ \E j \in 1..Len(TextEdits(k)) :
          LET at == TokenAt(pomCalls[k].before, TextEdits(k)[j].offset)
          IN  /\ Strip(TextEdits(k)[j].newText) = expected
              /\ at > 0
              /\ at <= target
              /\ IsBlank(SubSeq(pomCalls[k].before, at, target - 1))
    /\ Contains(Strip(After(k)), expected \o <<pomCalls[k].before[target]>>)

\* C26: with boms, (a) when the project has a dependencyManagement child with a
\* dependencies child, the bom elements are inserted, not wrapped, before the end tag of
\* that dependencies child; (b) when it has a dependencyManagement child without one,
\* they are inserted wrapped in one dependencies element before the end tag of
\* dependencyManagement; (c) when it has no dependencyManagement child, they are inserted
\* wrapped in dependencyManagement and, inside it, dependencies, before the end tag of
\* the project.
C26_BomWrapDepth ==
    \A k \in 1..Len(pomCalls) :
        (Succeeded(k) /\ pomBoms # <<>>)
            => LET before == pomCalls[k].before
                   mgmt == ManagementOf(before)
                   inner == ManagedDependenciesOf(before)
               IN  IF mgmt = <<>>
                   THEN EditInsertsBefore(k, ProjectOf(before).end,
                            <<O("dependencyManagement"), O("dependencies")>> \o AllBomsText
                            \o <<C("dependencies"), C("dependencyManagement")>>)
                   ELSE IF inner = <<>>
                   THEN before[mgmt[1].end].k = "close"
                        => EditInsertsBefore(k, mgmt[1].end,
                               <<O("dependencies")>> \o AllBomsText \o <<C("dependencies")>>)
                   ELSE before[inner[1].end].k = "close"
                        => EditInsertsBefore(k, inner[1].end, AllBomsText)

\* C26 witness: case (b) and then case (a) have happened, one call after the other on
\* one pom
C26_PatchedManagementTwice ==
    /\ Len(pomCalls) = 2
    /\ Succeeded(1)
    /\ Succeeded(2)
    /\ pomBoms # <<>>
    /\ pomCalls[1].before = ManagementOnlyPom
    /\ ManagedDependenciesOf(pomCalls[1].before) = <<>>
    /\ ManagedDependenciesOf(pomCalls[2].before) # <<>>

\* the element before whose end tag the k-th call inserts the edit it applies: the one
\* for the boms when there are boms, else the one for the artifacts
TargetOf(k) ==
    LET before == pomCalls[k].before
    IN  IF pomBoms = <<>>
        THEN IF DependenciesOf(before) = <<>> THEN ProjectOf(before)
             ELSE DependenciesOf(before)[1]
        ELSE IF ManagementOf(before) = <<>> THEN ProjectOf(before)
        ELSE IF ManagedDependenciesOf(before) = <<>> THEN ManagementOf(before)[1]
        ELSE ManagedDependenciesOf(before)[1]
\* the leading white space of the line of the i-th token of a text
LineIndent(text, i) == LeadingSpace(SubSeq(text, LineStart(text, i), i - 1))
\* every line of the inserted text starts with the prefix, and the first line goes on
\* with a start tag
LinesStartWith(newText, prefix) ==
    /\ \A p \in 1..(Len(newText) - 1) :
          newText[p] = Nl => SubSeq(newText, p + 1, p + Len(prefix)) = prefix
    /\ Len(newText) > Len(prefix) + 1
    /\ newText[1] = Nl
    /\ newText[Len(prefix) + 2].k = "open"

\* C27 as claimed: the base indentation of the inserted lines is the leading white
\* space of the line that holds the end tag of the target element; every inserted line
\* starts with it and one indentation unit.
C27_IndentOfEndTagLine ==
    \A k \in 1..Len(pomCalls) :
        (Succeeded(k) /\ pomCalls[k].before[TargetOf(k).end].k = "close")
            => \A j \in 1..Len(TextEdits(k)) :
                   LinesStartWith(TextEdits(k)[j].newText,
                                  LineIndent(pomCalls[k].before, TargetOf(k).end)
                                  \o Indent(editor))

\* C27 as amended: the base indentation of the inserted lines is the leading white
\* space of the line that holds the start tag of the target element (the element
\* before whose end tag the text is inserted); every inserted line starts with it and
\* one indentation unit.  Where the start tag and the end tag are on lines of different
\* indentation, the line of the start tag counts.
C27_IndentOfStartTagLine ==
    \A k \in 1..Len(pomCalls) :
        Succeeded(k)
            => \A j \in 1..Len(TextEdits(k)) :
                   LinesStartWith(TextEdits(k)[j].newText,
                                  LineIndent(pomCalls[k].before, TargetOf(k).start)
                                  \o Indent(editor))

\* C27 witness: a dependency was inserted in a dependencies element whose start tag is
\* indented with two spaces and whose end tag with a tab
C27_PatchedSkewedPom ==
    /\ pomCalls # <<>>
    /\ Succeeded(1)
    /\ pomBoms = <<>>
    /\ pomCalls[1].before = SkewedPom
    /\ LineIndent(SkewedPom, TargetOf(1).start) # LineIndent(SkewedPom, TargetOf(1).end)

\* C28: the text is inserted at the offset of the end tag of the target element,
\* except when the line of the end tag holds nothing or only white space before it:
\* then it is inserted at column 0 of that line.
C28_InsertionPoint ==
    \A k \in 1..Len(pomCalls) :
        (Succeeded(k) /\ pomCalls[k].before[TargetOf(k).end].k = "close")
            => LET before == pomCalls[k].before
                   tag == TargetOf(k).end
                   line == LineStart(before, tag)
               IN  /\ Len(TextEdits(k)) = 1
                   /\ TextEdits(k)[1].offset
                         = IF IsBlank(SubSeq(before, line, tag - 1))
                           THEN OffsetOf(before, line)
                           ELSE OffsetOf(before, tag)

\* C28 witness: a call inserted at an end tag that has other text before it on its
\* line, and the next call at column 0 of the line the end tag was moved to
C28_PatchedInlineTwice ==
    /\ Len(pomCalls) = 2
    /\ Succeeded(1)
    /\ Succeeded(2)
    /\ pomBoms = <<>>
    /\ pomCalls[1].before = InlineDependenciesPom
    /\ TextEdits(1)[1].offset = OffsetOf(pomCalls[1].before, TargetOf(1).end)
    /\ TextEdits(1)[1].offset
          # OffsetOf(pomCalls[1].before, LineStart(pomCalls[1].before, TargetOf(1).end))
    /\ TextEdits(2)[1].offset
          = OffsetOf(pomCalls[2].before, LineStart(pomCalls[2].before, TargetOf(2).end))

\* C29: after a successful updatePom the text is the text before it with the text of
\* the edit put in at one place: what was there before is all there, in its order.
C29_TextSplicedIn ==
    \A k \in 1..Len(pomCalls) :
        Succeeded(k)
            => LET before == pomCalls[k].before
                   grown == Len(After(k)) - Len(before)
               IN  /\ grown > 0
                   /\ \E at \in 1..(Len(before) + 1) :
                         /\ SubSeq(After(k), 1, at - 1) = SubSeq(before, 1, at - 1)
                         /\ SubSeq(After(k), at, at + grown - 1) = TextEdits(k)[1].newText
                         /\ SubSeq(After(k), at + grown, Len(After(k)))
                               = SubSeq(before, at, Len(before))

\* C29 witness: boms were inserted in the middle of a pom, before the end tag of
\* dependencyManagement
C29_PatchedManagementOnly ==
    /\ Len(pomCalls) = 1
    /\ Succeeded(1)
    /\ Len(pomBoms) = 1
    /\ pomCalls[1].before = ManagementOnlyPom
    /\ Len(pomText) > Len(ManagementOnlyPom)

-----------------------------------------------------------------------------
(* The handlers: claim C30 *)

\* C30 as claimed: a failure inside runSteps (a step cancelled, the download or the
\* extraction failed) is caught once by run, which shows exactly one error message,
\* the failure message followed by the message of the error, and throws the error on.
C30_FailureShownOnce ==
    phase = "failed"
        => /\ thrown # NoError
           /\ shown = <<<<failureMessage, thrown>>>>

-----------------------------------------------------------------------------
(* The wizard and the selector: claims C31 and C32 *)

\* the step loop of runSteps has ended without an error
LoopCompleted ==
    \/ phase \in {"folder", "overwrite", "download", "done"}
    \/ phase = "failed" /\ thrown \in {"Target folder not specified."} \cup DownloadResults

\* C31: when the step loop ends without an error, the dependencies, the service URL
\* and the boot version of the metadata are set; and when the dependency list is
\* dismissed pickSteps is not empty, so that the loop goes on with the popped step.
C31_CompletedLoopHasSelection ==
    /\ LoopCompleted
          => /\ ~metadata.dependencies.null
             /\ ~metadata.serviceUrl.null
             /\ ~metadata.bootVersion.null
             /\ lastStep = "Dependencies"
             /\ outcome = "answered"
    /\ (lastStep = "Dependencies" /\ outcome = "dismissed")
          => /\ stackBefore # <<>>
             /\ thrown = NoError
             /\ phase = "steps"
             /\ step = Pop(stackBefore)

\* C31 witness: the loop has ended with the selection summary of an empty selection
\* picked, and the target folder is asked for
C31_LoopEndedWithEmptySelection ==
    /\ phase = "folder"
    /\ metadata.dependencies = Some(<<>>)
    /\ ~metadata.bootVersion.null
    /\ pickSteps # <<>>

\* the place of a step in the chain
ChainIndex(s) == CHOOSE i \in 1..Len(Chain) : Chain[i] = s

\* C32: in every state of a run pickSteps holds no step twice, and its entries stand in
\* the order of the chain, from the bottom to the top.
C32_StackInChainOrder ==
    \A i, j \in 1..Len(pickSteps) :
        i < j => ChainIndex(pickSteps[i]) < ChainIndex(pickSteps[j])

\* C32 witness: the dependency list is about to open over a stack that holds the
\* service URL step, pushed before its pick, below the steps answered after it
C32_FullStackAtDependencies ==
    /\ phase = "steps"
    /\ step = "Dependencies"
    /\ Len(pickSteps) > 2
    /\ pickSteps[1] = "ServiceUrl"
    /\ Pop(pickSteps) = "JavaVersion"

-----------------------------------------------------------------------------
(* The add-starters handler: claims C33 to C35 *)

\* C33: in the add-starters flow every starter the pom declares stays selected
\* whatever is picked, and no artifact handed to updatePom has the groupId:artifactId
\* of a starter the pom declares.
C33_DeclaredStartersNotAddedAgain ==
    [][/\ flow' = "addStarters"
          => \A i \in 1..Len(oldStarterIds') : oldStarterIds'[i] \in ToSet(selectedIds')
       /\ (asPhase = "proceed" /\ asPhase' = "done")
          => \A i \in 1..Len(pomDeps') : \A j \in 1..Len(oldStarterIds) :
                Coordinates(pomDeps'[i])
                    # Coordinates(starters.dependencies[oldStarterIds[j]])]_vars

\* C33 witness: the pom declares a starter, another one was picked, and the handler
\* asks whether to proceed
C33_PickedBesideDeclaredStarter ==
    /\ flow = "addStarters"
    /\ asPhase = "proceed"
    /\ oldStarterIds # <<>>
    /\ Len(selectedIds) > Len(oldStarterIds)

\* C34 as claimed: in the add-starters flow "Pom file successfully updated." is shown
\* only after the edit was applied to the pom: never while the updatePom call has
\* not run, and never when it has failed.
C34_SuccessShownAfterEdit ==
    (\E i \in 1..Len(notices) : notices[i] = "Pom file successfully updated.")
        => /\ ~pending
           /\ pomCalls # <<>>
           /\ Succeeded(Len(pomCalls))

\* C35 as claimed: the bom list the add-starters handler hands to updatePom holds each
\* bom once, also when several of the starters to add have the same bom.
C35_BomsHandedOnce == NoDuplicates(pomBoms)

-----------------------------------------------------------------------------
(* The Dependencies step: claims C36 to C38 *)

\* the ids of a comma-joined list; the empty string is the empty list
IdsOf(value) == IF value = <<>> THEN <<>> ELSE Split(value, ",")

\* the ids the catalog has
CatalogIds == {catalog[i].id : i \in {j \in 1..Len(catalog) : catalog[j].defined}}

\* C36 as claimed: the value the Dependencies step records as the selection of the
\* metadata, and persists as last used, is a comma-joined list, possibly empty, of ids
\* of the catalog, whichever item of the list was picked to finish.
C36_RecordedSelectionInCatalog ==
    /\ ~metadata.dependencies.null
          => \A i \in 1..Len(IdsOf(metadata.dependencies.s)) :
                IdsOf(metadata.dependencies.s)[i] \in CatalogIds
    /\ ~historyFile.null
          => \A i \in 1..Len(IdsOf(historyFile.s)) : IdsOf(historyFile.s)[i] \in CatalogIds

\* C37 as claimed: toggling in the Dependencies step never changes the defaults the
\* caller supplied, so that every entry into the step, also after a jump back, starts
\* with the selection the caller supplied.
C37_DefaultsNeverModified ==
    [][phase = "steps" => defaults' = defaults]_vars

\* C38 as claimed, where the extension root is known: when the Dependencies step
\* completes through the selection entry of a non-empty selection S, the last-used
\* file holds the comma-joined ids of S; a list opened with an empty selection then
\* offers a last-used entry whose ids are the persisted ones; and a completion never
\* replaces a non-empty persisted value by an empty one.
C38_LastUsedRoundTrip ==
    [][/\ (extensionRoot /\ StepExecuted /\ lastStep' = "Dependencies"
              /\ outcome' = "answered" /\ selectedIds # <<>>
              /\ metadata'.dependencies = Some(Join(selectedIds, Comma)))
          => historyFile' = Some(Join(selectedIds, Comma))
       /\ (flow' = "generate" /\ listed' /\ selectedIds' = <<>> /\ ~lastselected'.null
              /\ lastselected'.s # <<>>)
          => /\ CurrentItems'[1].itemType = "lastUsed"
             /\ CurrentItems'[1].id = lastselected'.s
       /\ (~historyFile.null /\ historyFile.s # <<>>)
          => (~historyFile'.null /\ historyFile'.s # <<>>)]_vars

-----------------------------------------------------------------------------
(* The target folder: claim C39 *)

\* C39 as claimed: generation into a folder that exists goes on to the download only
\* after the user chose Continue at the warning; a warning dismissed without a choice
\* does not let it go on into that folder.
C39_ExistingFolderNeedsContinue ==
    (phase \in {"download", "done"} /\ isDirectory(outputUri))
        => overrideChoice = "Continue"

=============================================================================
